---- MODULE Spec2Model ----
(***************************************************************************)
(* Message-analysis pipeline of the ERM dashboard: the chat panel          *)
(* (InteractivePanel), the transcript panel (DialogAnalysisPanel), their   *)
(* asynchronous flagging / principle-scoring calls and the cutoff and      *)
(* filter views.                                                           *)
(***************************************************************************)
EXTENDS Integers, Sequences, FiniteSets, TLC

VARIABLES
    selectedMode,              \* Dashboard: "none" | "dialog-analysis" | "default-chat" | "custom-workflow"
    messages,                  \* panel state: ordered message list
    flaggedMessages,           \* panel state: global flag list
    principleScores,           \* panel state: global score list
    messageCutoff,             \* panel state: cutoff (0 = all)
    flagsLogFilters,           \* panel state: the three flags-log filters
    isConnected,
    isFlaggingEnabled,
    isPrincipleScoringEnabled,
    now,                       \* value Date.now() returns
    chats,                     \* /api/chat requests in flight (closures of handleSendMessage)
    timers,                    \* pending setTimeout(…, 100) callbacks of handleSendMessage
    calls,                     \* /api/flag and /api/principle_scoring requests in flight
    events,                    \* number of user and network events since the panel was mounted
    principleVisualizationData, \* panel state: per-principle chart series
    filtered,                  \* result of the last getFilteredMessages / getFilteredFlags evaluation
    exported,                  \* what the last summary request or export was built from
    route,                     \* the last request served by an API route and its response
    analysisRun                \* position of the loop of runAnalysisOnAllMessages

vars == << selectedMode, messages, flaggedMessages, principleScores, messageCutoff,
           flagsLogFilters, isConnected, isFlaggingEnabled, isPrincipleScoringEnabled,
           now, chats, timers, calls, events, principleVisualizationData, filtered,
           exported, route, analysisRun >>

----------------------------------------------------------------------------
(* Bounds of the model *)

MaxEvents == 4        \* user and network events handled per mounted panel
MaxClock == 1         \* largest clock value

----------------------------------------------------------------------------
(* Optional values: undefined is the empty sequence, a value v is <<v>> *)

Undefined == << >>

Some(v) == << v >>

IsDefined(o) == Len(o) > 0

Value(o) == o[1]

Min(a, b) == IF a < b THEN a ELSE b

Max(a, b) == IF a > b THEN a ELSE b

\* Array.prototype.slice(-n): the last n elements
SliceLast(s, n) == SubSeq(s, Max(1, Len(s) - n + 1), Len(s))

\* Array.prototype.slice(0, n): the first n elements
SliceFirst(s, n) == SubSeq(s, 1, Min(n, Len(s)))

RemoveAt(s, k) == SubSeq(s, 1, k - 1) \o SubSeq(s, k + 1, Len(s))

Range(s) == { s[i] : i \in 1..Len(s) }

----------------------------------------------------------------------------
(* Registries *)

\* severityBreakdown keys of the chat panel's failure fallback
FallbackCategories ==
    << "emotional-distress", "suicidal-ideation", "mania-psychosis",
       "emotional-dysregulation-escalation", "persistence-of-distress",
       "social-withdrawal-lack-of-support", "over-reliance-ai",
       "reduced-coping-capacity", "hopelessness-reduced-future-orientation",
       "human-intervention-recommended" >>

\* ids of the principle registry of the scoring route
PRINCIPLES == << "empathy", "safety", "respect", "boundaries" >>

NoneBreakdown == [i \in 1..Len(FallbackCategories) |-> << FallbackCategories[i], "none" >>]

\* severityBreakdown keys the flagging route reports
RouteCategories ==
    << "emotional-distress", "emotional-dysregulation-escalation",
       "persistence-of-distress", "social-withdrawal-lack-of-support",
       "over-reliance-ai", "reduced-coping-capacity",
       "hopelessness-reduced-future-orientation", "human-intervention-recommended" >>

\* A route breakdown: every route category, `none` unless listed in high / low
RouteBreakdown(high, low) ==
    [i \in 1..Len(RouteCategories) |->
        << RouteCategories[i],
           IF RouteCategories[i] \in high THEN "high"
           ELSE IF RouteCategories[i] \in low THEN "low" ELSE "none" >>]

----------------------------------------------------------------------------
(* Inputs: what the user types and what the network returns *)

UserInputs == { "I feel overwhelmed lately" }

ChatReplies == { "reply-1", "reply-2" }

\* 200 bodies of /api/flag
FlagResponses ==
    { [shouldFlag |-> FALSE, reasoning |-> "No concerns found.", flags |-> << >>,
       severityBreakdown |-> Some(RouteBreakdown({}, {}))],
      [shouldFlag |-> TRUE, reasoning |-> "User expresses distress.",
       flags |-> << [type |-> "emotional-distress", severity |-> "high",
                     reason |-> "expresses distress", flaggedText |-> "overwhelmed"] >>,
       severityBreakdown |-> Some(RouteBreakdown({"emotional-distress"}, {"over-reliance-ai"}))] }

RouteScores(v) ==
    [i \in 1..Len(PRINCIPLES) |->
        [principleId |-> PRINCIPLES[i], score |-> v, reasoning |-> "scored by the model"]]

\* 200 bodies of /api/principle_scoring
ScoreResponses ==
    { [success |-> TRUE, scores |-> RouteScores(3)] }

\* how a request can fail: a non-OK status, or fetch / response.json() throwing
Failures == { "http-error", "throw" }

----------------------------------------------------------------------------
(* Messages *)

NewMessage(id, type, content, timestamp) ==
    [id |-> id, type |-> type, content |-> content, timestamp |-> timestamp,
     flags |-> Undefined, flaggingAnalysis |-> Undefined,
     severityBreakdown |-> Undefined, principleScoring |-> Undefined]

\* msg => ({ role: msg.type === 'user' ? 'user' : 'assistant', content: msg.content })
ToRoleContent(msg) ==
    [role |-> IF msg.type = "user" THEN "user" ELSE "assistant", content |-> msg.content]

MapRoleContent(s) == [i \in 1..Len(s) |-> ToRoleContent(s[i])]

IsAi(m) == m.type = "ai"

\* contextMessages of InteractivePanel.analyzeMessage
FlagContext(message, allMessages) ==
    IF message.type = "ai"
    THEN LET aiOnly == SelectSeq(allMessages, IsAi)
             recentAi == [i \in 1..Len(SliceLast(aiOnly, 5)) |->
                             [role |-> "assistant", content |-> SliceLast(aiOnly, 5)[i].content]]
         IN IF \E i \in 1..Len(recentAi) : recentAi[i].content = message.content
            THEN recentAi
            ELSE Append(recentAi, [role |-> "assistant", content |-> message.content])
    ELSE MapRoleContent(SliceLast(allMessages, 5))

\* contextMessages of InteractivePanel.scorePrinciples
ScoreContext(message, allMessages) == MapRoleContent(SliceLast(allMessages, 5))

\* contextMessages of DialogAnalysisPanel.analyzeMessage / scorePrinciples
DialogContext(message, allMessages) == MapRoleContent(SliceLast(allMessages, 5))

\* getFilteredMessages with the slice ending one message early
getFilteredMessagesShort(msgs, cutoff) ==
    IF cutoff = 0 \/ cutoff >= Len(msgs) THEN msgs ELSE SliceFirst(msgs, cutoff - 1)

\* getFilteredMessages
getFilteredMessages(msgs, cutoff) ==
    IF cutoff = 0 \/ cutoff >= Len(msgs) THEN msgs ELSE SliceFirst(msgs, cutoff)

\* the useEffect on [messages.length]: the cutoff follows the number of messages
CutoffAfter(old, new, cutoff) ==
    IF Len(new) = Len(old) THEN cutoff
    ELSE IF Len(new) > 0 THEN Len(new) ELSE 0

----------------------------------------------------------------------------
(* Principle visualization data *)

\* the principles updatePrincipleVisualizationData of InteractivePanel charts
ChartPrinciples == << "empathy", "safety", "respect", "boundaries" >>

\* the principles of the empty chart of both panels and of
\* DialogAnalysisPanel.updatePrincipleVisualizationData
LegacyChartPrinciples == << "transparency", "respect", "accountability", "fairness" >>

\* the entries one principle's series gets from the messages of one role:
\* allMessages.forEach((msg, index) => ...) with scores.find(principleId)
SeriesOf(allMessages, principle, role) ==
    LET RECURSIVE Walk(_)
        Walk(index) ==
            IF index > Len(allMessages) THEN << >>
            ELSE LET msg == allMessages[index]
                     found == IF IsDefined(msg.principleScoring)
                              THEN SelectSeq(Value(msg.principleScoring).scores,
                                             LAMBDA sc : sc.principleId = principle)
                              ELSE << >>
                     isUser == msg.type = "user"
                 IN (IF found # << >> /\ (isUser <=> role = "user")
                     THEN << [messageIndex |-> index - 1, score |-> found[1].score,
                              timestamp |-> msg.timestamp,
                              reasoning |-> IF found[1].reasoning = ""
                                            THEN "No reasoning provided"
                                            ELSE found[1].reasoning] >>
                     ELSE << >>) \o Walk(index + 1)
    IN Walk(1)

\* the vizData updatePrincipleVisualizationData sets
VizData(allMessages, principles) ==
    [p \in 1..Len(principles) |->
        [principleId |-> principles[p],
         userScores |-> SeriesOf(allMessages, principles[p], "user"),
         aiScores |-> SeriesOf(allMessages, principles[p], "ai")]]

\* the useEffect on [messages, messageCutoff] of the panel of the mode
VizEffect(mode, msgs, cutoff) ==
    IF mode = "none" THEN << >>
    ELSE IF Len(getFilteredMessages(msgs, cutoff)) > 0
    THEN VizData(getFilteredMessages(msgs, cutoff),
                 IF mode = "dialog-analysis" THEN LegacyChartPrinciples ELSE ChartPrinciples)
    ELSE VizData(<< >>, LegacyChartPrinciples)

----------------------------------------------------------------------------
(* InteractivePanel: merging a flagging result *)

\* newFlags of analyzeMessage: the explicit flags, then one flag per breakdown
\* category that is not `none` and has no explicit flag
NewFlags(message, body) ==
    LET explicit ==
            IF body.shouldFlag /\ Len(body.flags) > 0
            THEN [i \in 1..Len(body.flags) |->
                    [messageId |-> message.id, type |-> body.flags[i].type,
                     severity |-> body.flags[i].severity, reason |-> body.flags[i].reason,
                     flaggedText |-> body.flags[i].flaggedText, resolved |-> FALSE]]
            ELSE << >>
        existingTypes == { explicit[i].type : i \in 1..Len(explicit) }
        notNone == IF IsDefined(body.severityBreakdown)
                   THEN SelectSeq(Value(body.severityBreakdown), LAMBDA e : e[2] # "none")
                   ELSE << >>
        severityFlagsFromBreakdown ==
            [i \in 1..Len(notNone) |->
                [messageId |-> message.id, type |-> notNone[i][1], severity |-> notNone[i][2],
                 reason |-> "Content flagged for " \o notNone[i][1] \o " with "
                            \o notNone[i][2] \o " severity",
                 flaggedText |-> message.content, resolved |-> FALSE]]
        uniqueSeverityFlags ==
            SelectSeq(severityFlagsFromBreakdown, LAMBDA f : f.type \notin existingTypes)
    IN explicit \o uniqueSeverityFlags

\* setFlaggedMessages(newFlags): the list is replaced by the flags of the last result
ReplaceFlags(prev, newFlags) == newFlags

\* setFlaggedMessages(prev => [...prev, ...newFlags])
AppendFlags(prev, newFlags) == prev \o newFlags

\* the FlaggingAnalysis analyzeMessage builds from a 200 body
FlagAnalysis(message, body) ==
    [messageId |-> message.id, shouldFlag |-> body.shouldFlag,
     flags |-> NewFlags(message, body),
     reasoning |-> IF body.reasoning = "" THEN "Analysis completed successfully."
                   ELSE body.reasoning]

\* the success branch attaching the result to the most recent message
MergeFlaggingMostRecent(prev, message, body) ==
    [i \in 1..Len(prev) |->
        IF i = Len(prev)
        THEN [prev[i] EXCEPT
                !.flags = IF Len(NewFlags(message, body)) > 0
                          THEN Some(NewFlags(message, body)) ELSE Undefined,
                !.flaggingAnalysis = Some(FlagAnalysis(message, body)),
                !.severityBreakdown = IF IsDefined(body.severityBreakdown)
                                      THEN body.severityBreakdown ELSE Some(<< >>)]
        ELSE prev[i]]

\* the success branch adding the new flags to those the message already has
MergeFlaggingAccumulate(prev, message, body) ==
    [i \in 1..Len(prev) |->
        IF prev[i].id = message.id
        THEN [prev[i] EXCEPT
                !.flags = Some((IF IsDefined(prev[i].flags) THEN Value(prev[i].flags)
                                ELSE << >>) \o NewFlags(message, body)),
                !.flaggingAnalysis = Some(FlagAnalysis(message, body)),
                !.severityBreakdown = IF IsDefined(body.severityBreakdown)
                                      THEN body.severityBreakdown ELSE Some(<< >>)]
        ELSE prev[i]]

\* setMessages(prev => prev.map(...)) of the success branch
MergeFlagging(prev, message, body) ==
    [i \in 1..Len(prev) |->
        IF prev[i].id = message.id
        THEN [prev[i] EXCEPT
                !.flags = IF Len(NewFlags(message, body)) > 0
                          THEN Some(NewFlags(message, body)) ELSE Undefined,
                !.flaggingAnalysis = Some(FlagAnalysis(message, body)),
                !.severityBreakdown = IF IsDefined(body.severityBreakdown)
                                      THEN body.severityBreakdown ELSE Some(<< >>)]
        ELSE prev[i]]

FailureReasoning(failure) ==
    IF failure = "http-error" THEN "Analysis failed - please check your API configuration"
    ELSE "Analysis error - please check your connection and API key"

\* setMessages(prev => prev.map(...)) of the non-OK branch and of the catch branch
MergeFlaggingFallback(prev, message, failure) ==
    [i \in 1..Len(prev) |->
        IF prev[i].id = message.id
        THEN [prev[i] EXCEPT
                !.flaggingAnalysis = Some([messageId |-> message.id, shouldFlag |-> FALSE,
                                           flags |-> << >>,
                                           reasoning |-> FailureReasoning(failure)]),
                !.severityBreakdown = Some(NoneBreakdown)]
        ELSE prev[i]]

(* InteractivePanel: merging a principle-scoring result *)

\* the PrincipleScoring scorePrinciples builds from a 200 body
Scoring(message, body) ==
    [messageId |-> message.id,
     scores |-> [i \in 1..Len(body.scores) |->
                    [messageId |-> message.id, principleId |-> body.scores[i].principleId,
                     score |-> body.scores[i].score,
                     reasoning |-> IF body.scores[i].reasoning = ""
                                   THEN "Analysis completed successfully."
                                   ELSE body.scores[i].reasoning]]]

\* setMessages(prev => prev.map(...)) with a PrincipleScoring
MergeScoring(prev, message, scoring) ==
    [i \in 1..Len(prev) |->
        IF prev[i].id = message.id
        THEN [prev[i] EXCEPT !.principleScoring = Some(scoring)]
        ELSE prev[i]]

\* fallbackScoring / errorScoring of scorePrinciples
FallbackScoring(message, failure) ==
    [messageId |-> message.id,
     scores |-> [i \in 1..4 |->
                    [messageId |-> message.id,
                     principleId |-> << "empathy", "safety", "respect", "boundaries" >>[i],
                     score |-> 0, reasoning |-> FailureReasoning(failure)]]]

----------------------------------------------------------------------------
(* DialogAnalysisPanel: merging results into the snapshot the call was made with *)

\* updatedMessages of DialogAnalysisPanel.analyzeMessage
DialogMergeFlagging(allMessages, message, body) ==
    [i \in 1..Len(allMessages) |->
        IF allMessages[i].id = message.id
        THEN [allMessages[i] EXCEPT
                !.flaggingAnalysis =
                    Some([messageId |-> message.id, shouldFlag |-> body.shouldFlag,
                          flags |-> body.flags,
                          reasoning |-> IF body.reasoning = "" THEN "No reasoning provided"
                                        ELSE body.reasoning]),
                !.flags = Some(body.flags),
                !.severityBreakdown = IF IsDefined(body.severityBreakdown)
                                      THEN body.severityBreakdown ELSE Some(<< >>)]
        ELSE allMessages[i]]

\* updatedMessages of DialogAnalysisPanel.scorePrinciples
DialogMergeScoring(allMessages, message, body) ==
    [i \in 1..Len(allMessages) |->
        IF allMessages[i].id = message.id
        THEN [allMessages[i] EXCEPT
                !.principleScoring = Some([messageId |-> message.id, scores |-> body.scores])]
        ELSE allMessages[i]]

----------------------------------------------------------------------------
(* DialogAnalysisPanel: the transcript parser.  A line of the text is the   *)
(* pair << prefix, rest >> of its trimmed form: prefix is the role prefix    *)
(* matched by userMatch or aiMatch ("" when neither matches) and rest is     *)
(* capture group 2 of the match, or the whole trimmed line.                  *)

IsUserPrefix(p) == p \in { "user", "USER", "User" }

IsAiPrefix(p) == p \in { "ai", "AI", "Ai" }

\* messages.push({ id: `msg-${messageIndex}`, ..., timestamp: Date.now() - messages.length * 60000 })
PushMessage(msgs, currentMessage, currentType, messageIndex, t) ==
    Append(msgs, NewMessage("msg-" \o ToString(messageIndex), currentType, currentMessage,
                            t - Len(msgs) * 60000))

RECURSIVE ParseLines(_, _, _, _, _, _)
\* the for loop of parseConversationFile and the final push
ParseLines(lines, msgs, currentMessage, currentType, messageIndex, t) ==
    IF lines = << >>
    THEN IF currentMessage # "" /\ currentType # "null"
         THEN PushMessage(msgs, currentMessage, currentType, messageIndex, t)
         ELSE msgs
    ELSE LET line == Head(lines)
             open == currentMessage # "" /\ currentType # "null"
         IN IF line[1] = "" /\ line[2] = ""
            THEN ParseLines(Tail(lines), msgs, currentMessage, currentType, messageIndex, t)
            ELSE IF IsUserPrefix(line[1]) \/ IsAiPrefix(line[1])
            THEN ParseLines(Tail(lines),
                            IF open THEN PushMessage(msgs, currentMessage, currentType,
                                                     messageIndex, t)
                            ELSE msgs,
                            line[2],
                            IF IsUserPrefix(line[1]) THEN "user" ELSE "ai",
                            IF open THEN messageIndex + 1 ELSE messageIndex, t)
            ELSE ParseLines(Tail(lines), msgs,
                            IF currentMessage # "" THEN currentMessage \o "\n" \o line[2]
                            ELSE currentMessage,
                            currentType, messageIndex, t)

parseConversationFile(text, t) == ParseLines(text, << >>, "", "null", 0, t)

\* the transcripts a user uploads
Transcripts ==
    { << << "USER", "hi" >>, << "AI", "hello" >> >>,
      << << "user", "bye" >>, << "", "" >>, << "", "really" >> >>,
      << << "", "no role prefix" >> >>,
      << << "user", "" >>, << "", "hi" >>, << "AI", "hello" >> >> }

----------------------------------------------------------------------------
(* Analyzer calls *)

\* a request in flight: the message and list the handler closed over, the
\* context it sent, and pos, the index of the message in the list when the
\* call was issued (0 when the message was not in it); awaited is set when
\* the loop of runAnalysisOnAllMessages waits for the call
Call(kind, message, allMessages, context, pos) ==
    [kind |-> kind, message |-> message, allMessages |-> allMessages,
     context |-> context, pos |-> pos, awaited |-> FALSE]

\* the two auto-analysis effects of DialogAnalysisPanel, run after a commit
\* that changed messages, a toggle or isConnected
AutoCalls(msgs, flagging, scoring, connected) ==
    LET lastMessage == msgs[Len(msgs)]
        flag == IF flagging /\ connected /\ Len(msgs) > 0
                   /\ ~IsDefined(lastMessage.flaggingAnalysis)
                THEN << Call("flag", lastMessage, msgs,
                             DialogContext(lastMessage, msgs), Len(msgs)) >>
                ELSE << >>
        score == IF scoring /\ connected /\ Len(msgs) > 0
                    /\ ~IsDefined(lastMessage.principleScoring)
                 THEN << Call("score", lastMessage, msgs,
                              DialogContext(lastMessage, msgs), Len(msgs)) >>
                 ELSE << >>
    IN flag \o score

----------------------------------------------------------------------------
(* State *)

NoFilters == [messageType |-> "all", flagCategory |-> "all", severityLevel |-> "all"]

NoView == [messages |-> << >>, flags |-> << >>]

\* no request was made
NoRoute == [endpoint |-> "none", version |-> "current", apiKey |-> "", raw |-> << >>,
            submit |-> "none", served |-> FALSE, providerCalls |-> 0, status |-> 0,
            body |-> << >>]

\* runAnalysisOnAllMessages is not running: phase is idle, awaiting (a call),
\* delay (the 1 s pause after a call) or done; messages and the two toggles are
\* the values the handler closed over, index and step the message and the
\* analysis the loop is at
NoRun == [phase |-> "idle", messages |-> << >>, isFlaggingEnabled |-> FALSE,
          isPrincipleScoringEnabled |-> FALSE, index |-> 0, step |-> "flag"]

\* nothing was summarised or exported yet
NoExport == [kind |-> "none", conversationHistory |-> << >>, flaggedContent |-> << >>,
             principleRecords |-> << >>]

\* the useState initial values of a freshly mounted panel
Mounted ==
    /\ messages = << >>
    /\ flaggedMessages = << >>
    /\ principleScores = << >>
    /\ messageCutoff = 0
    /\ flagsLogFilters = NoFilters
    /\ isConnected = FALSE
    /\ isFlaggingEnabled = TRUE
    /\ isPrincipleScoringEnabled = TRUE
    /\ chats = << >>
    /\ timers = << >>
    /\ calls = << >>
    /\ events = 0
    /\ principleVisualizationData = << >>
    /\ filtered = NoView
    /\ exported = NoExport
    /\ route = NoRoute
    /\ analysisRun = NoRun

Init ==
    /\ selectedMode = "none"
    /\ now = 0
    /\ Mounted

InChat == selectedMode \in { "default-chat", "custom-workflow" }

InDialog == selectedMode = "dialog-analysis"

\* a user or network event is handled
Event == events < MaxEvents /\ events' = events + 1

\* the values Date.now() may return next
Clock == { t \in { now, now + 1 } : t <= MaxClock }

listVars == << flaggedMessages, principleScores >>

switchVars == << isConnected, isFlaggingEnabled, isPrincipleScoringEnabled >>

chatVars == << chats, timers >>

viewVars == << flagsLogFilters, filtered, exported, route, analysisRun >>

----------------------------------------------------------------------------
(* Dashboard *)

\* Dashboard.handleModeSelect: mounts the panel of the chosen mode
handleModeSelect(mode) ==
    /\ selectedMode = "none"
    /\ selectedMode' = mode
    /\ principleVisualizationData' = VizEffect(mode, messages, messageCutoff)
    /\ UNCHANGED << messages, messageCutoff, listVars, switchVars, chatVars, calls,
                    events, viewVars, now >>

\* Dashboard.handleBack: unmounts the panel; its state is discarded and the
\* state updates of requests still in flight are dropped
handleBack ==
    /\ selectedMode # "none"
    /\ selectedMode' = "none"
    /\ messages' = << >>
    /\ flaggedMessages' = << >>
    /\ principleScores' = << >>
    /\ messageCutoff' = 0
    /\ flagsLogFilters' = NoFilters
    /\ isConnected' = FALSE
    /\ isFlaggingEnabled' = TRUE
    /\ isPrincipleScoringEnabled' = TRUE
    /\ chats' = << >>
    /\ timers' = << >>
    /\ calls' = << >>
    /\ events' = 0
    /\ principleVisualizationData' = << >>
    /\ filtered' = NoView
    /\ exported' = NoExport
    /\ route' = NoRoute
    /\ analysisRun' = NoRun
    /\ UNCHANGED now

----------------------------------------------------------------------------
(* Both panels: connection and toggles *)

\* the calls the commit of a DialogAnalysisPanel state change issues; an effect
\* whose dependencies did not change is passed FALSE and does not run
Effects(msgs, flagging, scoring, connected) ==
    IF InDialog THEN AutoCalls(msgs, flagging, scoring, connected) ELSE << >>

\* handleApiKeySet / onApiKeySet
handleApiKeySet ==
    /\ selectedMode # "none"
    /\ ~isConnected
    /\ isConnected' = TRUE
    /\ calls' = calls \o Effects(messages, isFlaggingEnabled, isPrincipleScoringEnabled, TRUE)
    /\ UNCHANGED << selectedMode, principleVisualizationData, messages, messageCutoff, listVars, isFlaggingEnabled,
                    isPrincipleScoringEnabled, chatVars, events, viewVars, now >>

\* onClick of the flagging toggle
toggleFlagging ==
    /\ selectedMode # "none"
    /\ Event
    /\ isFlaggingEnabled' = ~isFlaggingEnabled
    /\ calls' = calls \o Effects(messages, ~isFlaggingEnabled, FALSE, isConnected)
    /\ UNCHANGED << selectedMode, principleVisualizationData, messages, messageCutoff, listVars, isConnected,
                    isPrincipleScoringEnabled, chatVars, viewVars, now >>

\* onClick of the principle-scoring toggle
togglePrincipleScoring ==
    /\ selectedMode # "none"
    /\ Event
    /\ isPrincipleScoringEnabled' = ~isPrincipleScoringEnabled
    /\ calls' = calls \o Effects(messages, FALSE, ~isPrincipleScoringEnabled, isConnected)
    /\ UNCHANGED << selectedMode, principleVisualizationData, messages, messageCutoff, listVars, isConnected,
                    isFlaggingEnabled, chatVars, viewVars, now >>

\* onChange of the cutoff slider (min 1, max messages.length)
setMessageCutoff(n) ==
    /\ selectedMode # "none"
    /\ Len(messages) > 0
    /\ n \in 1..Len(messages)
    /\ n # messageCutoff
    /\ Event
    /\ messageCutoff' = n
    /\ principleVisualizationData' = VizEffect(selectedMode, messages, messageCutoff')
    /\ UNCHANGED << selectedMode, messages, listVars, switchVars, chatVars, calls,
                    viewVars, now >>

----------------------------------------------------------------------------
(* InteractivePanel: chat *)

\* the closure of one handleSendMessage invocation, suspended at fetch('/api/chat')
Chat(userMessage) ==
    [messages |-> messages, userMessage |-> userMessage,
     isFlaggingEnabled |-> isFlaggingEnabled,
     isPrincipleScoringEnabled |-> isPrincipleScoringEnabled]

\* a setTimeout(() => { analyzeMessage(m, all); scorePrinciples(m, all) }, 100)
Timer(message, allMessages, flagging, scoring, pos) ==
    [kind |-> "analyze", message |-> message, allMessages |-> allMessages,
     isFlaggingEnabled |-> flagging, isPrincipleScoringEnabled |-> scoring, pos |-> pos]

\* the setTimeout(() => updatePrincipleVisualizationData(updatedMessages), 100) of
\* the success branch of scorePrinciples
VizTimer(message, updatedMessages) ==
    [kind |-> "viz", message |-> message, allMessages |-> updatedMessages,
     isFlaggingEnabled |-> FALSE, isPrincipleScoringEnabled |-> FALSE, pos |-> 0]

\* handleSendMessage up to the await: appends the user message, schedules its analysis
handleSendMessage(content) ==
    /\ InChat
    /\ isConnected
    /\ Event
    /\ \E t \in Clock :
        LET userMessage == NewMessage("msg-" \o ToString(t), "user", content, t)
        IN /\ now' = t
           /\ messages' = Append(messages, userMessage)
           /\ messageCutoff' = CutoffAfter(messages, messages', messageCutoff)
           /\ chats' = Append(chats, Chat(userMessage))
           /\ timers' = IF selectedMode = "default-chat"
                        THEN Append(timers, Timer(userMessage, Append(messages, userMessage),
                                                  isFlaggingEnabled, isPrincipleScoringEnabled,
                                                  Len(messages) + 1))
                        ELSE timers
    /\ principleVisualizationData' = VizEffect(selectedMode, messages', messageCutoff')
    /\ UNCHANGED << selectedMode, listVars, switchVars, calls,
                    viewVars >>

\* handleSendMessage after the await, response.ok: appends the reply, schedules its analysis
chatResponse(k, reply) ==
    /\ InChat
    /\ Event
    /\ k \in 1..Len(chats)
    /\ \E t \in Clock :
        LET c == chats[k]
            aiMessage == NewMessage("msg-" \o ToString(t) \o "-ai", "ai", reply, t)
        IN /\ now' = t
           /\ messages' = Append(messages, aiMessage)
           /\ messageCutoff' = CutoffAfter(messages, messages', messageCutoff)
           /\ timers' = IF selectedMode = "default-chat"
                        THEN Append(timers,
                                    Timer(aiMessage, c.messages \o << c.userMessage, aiMessage >>,
                                          c.isFlaggingEnabled, c.isPrincipleScoringEnabled,
                                          Len(messages) + 1))
                        ELSE timers
    /\ chats' = RemoveAt(chats, k)
    /\ principleVisualizationData' = VizEffect(selectedMode, messages', messageCutoff')
    /\ UNCHANGED << selectedMode, listVars, switchVars, calls,
                    viewVars >>

\* handleSendMessage after the await, catch branch: appends the synthetic error message
chatFailure(k) ==
    /\ InChat
    /\ Event
    /\ k \in 1..Len(chats)
    /\ \E t \in Clock :
        LET errorMessage ==
                NewMessage("msg-" \o ToString(t) \o "-error", "ai",
                           "Error: Failed to get AI response. Please check your API key and try again.",
                           t)
        IN /\ now' = t
           /\ messages' = Append(messages, errorMessage)
           /\ messageCutoff' = CutoffAfter(messages, messages', messageCutoff)
    /\ chats' = RemoveAt(chats, k)
    /\ principleVisualizationData' = VizEffect(selectedMode, messages', messageCutoff')
    /\ UNCHANGED << selectedMode, listVars, switchVars, timers, calls, viewVars >>

\* a timeout callback: analyzeMessage and scorePrinciples run up to their fetch,
\* or updatePrincipleVisualizationData runs on the list captured by the merge
timerFires ==
    /\ InChat
    /\ timers # << >>
    /\ LET tm == Head(timers)
           flag == IF tm.isFlaggingEnabled /\ selectedMode = "default-chat"
                   THEN << Call("flag", tm.message, << >>,
                                FlagContext(tm.message, tm.allMessages), tm.pos) >>
                   ELSE << >>
           score == IF tm.isPrincipleScoringEnabled /\ selectedMode = "default-chat"
                    THEN << Call("score", tm.message, << >>,
                                 ScoreContext(tm.message, tm.allMessages), tm.pos) >>
                    ELSE << >>
       IN IF tm.kind = "viz"
          THEN /\ principleVisualizationData' = VizData(tm.allMessages, ChartPrinciples)
               /\ UNCHANGED calls
          ELSE /\ calls' = calls \o flag \o score
               /\ UNCHANGED principleVisualizationData
    /\ timers' = Tail(timers)
    /\ UNCHANGED << selectedMode, messages, messageCutoff, listVars, switchVars, chats,
                    events, viewVars, now >>

----------------------------------------------------------------------------
(* InteractivePanel: analyzer responses *)

\* analyzeMessage after the await, response.ok
analyzeMessageOk(k, body) ==
    /\ InChat
    /\ k \in 1..Len(calls)
    /\ Event
    /\ calls[k].kind = "flag"
    /\ LET message == calls[k].message
       IN /\ flaggedMessages' = AppendFlags(flaggedMessages, NewFlags(message, body))
          /\ messages' = MergeFlagging(messages, message, body)
    /\ calls' = RemoveAt(calls, k)
    /\ principleVisualizationData' = VizEffect(selectedMode, messages', messageCutoff)
    /\ UNCHANGED << selectedMode, principleScores, messageCutoff, switchVars, chatVars,
                    viewVars, now >>

\* analyzeMessage after the await, non-OK response or exception
analyzeMessageFailed(k, failure) ==
    /\ InChat
    /\ k \in 1..Len(calls)
    /\ Event
    /\ calls[k].kind = "flag"
    /\ messages' = MergeFlaggingFallback(messages, calls[k].message, failure)
    /\ calls' = RemoveAt(calls, k)
    /\ principleVisualizationData' = VizEffect(selectedMode, messages', messageCutoff)
    /\ UNCHANGED << selectedMode, listVars, messageCutoff, switchVars, chatVars,
                    viewVars, now >>

\* scorePrinciples after the await, response.ok with success and scores
scorePrinciplesOk(k, body) ==
    /\ InChat
    /\ k \in 1..Len(calls)
    /\ Event
    /\ calls[k].kind = "score"
    /\ LET message == calls[k].message
       IN IF body.success
          THEN /\ principleScores' = principleScores \o Scoring(message, body).scores
               /\ messages' = MergeScoring(messages, message, Scoring(message, body))
               /\ timers' = Append(timers, VizTimer(message, messages'))
               /\ principleVisualizationData' = VizEffect(selectedMode, messages', messageCutoff)
          ELSE UNCHANGED << principleScores, messages, timers, principleVisualizationData >>
    /\ calls' = RemoveAt(calls, k)
    /\ UNCHANGED << selectedMode, flaggedMessages, messageCutoff, switchVars, chats,
                    viewVars, now >>

\* scorePrinciples after the await, non-OK response or exception
scorePrinciplesFailed(k, failure) ==
    /\ InChat
    /\ k \in 1..Len(calls)
    /\ Event
    /\ calls[k].kind = "score"
    /\ messages' = MergeScoring(messages, calls[k].message,
                                FallbackScoring(calls[k].message, failure))
    /\ calls' = RemoveAt(calls, k)
    /\ principleVisualizationData' = VizEffect(selectedMode, messages', messageCutoff)
    /\ UNCHANGED << selectedMode, listVars, messageCutoff, switchVars, chatVars,
                    viewVars, now >>

----------------------------------------------------------------------------
(* DialogAnalysisPanel *)

\* handleFileUpload: the parsed transcript replaces the message list
handleFileUpload(text) ==
    /\ InDialog
    /\ Event
    /\ \E t \in Clock :
        /\ now' = t
        /\ messages' = parseConversationFile(text, t)
    /\ messageCutoff' = CutoffAfter(messages, messages', messageCutoff)
    /\ calls' = calls \o Effects(messages', isFlaggingEnabled, isPrincipleScoringEnabled, isConnected)
    /\ principleVisualizationData' = VizEffect(selectedMode, messages', messageCutoff')
    /\ UNCHANGED << selectedMode, listVars, switchVars, chatVars, viewVars >>

\* the promise of a call settles: a loop of runAnalysisOnAllMessages that
\* awaited it goes on to its 1 s pause
Resolved(call) ==
    IF call.awaited THEN [analysisRun EXCEPT !.phase = "delay"] ELSE analysisRun

\* analyzeMessage after the await, response.ok: setMessages(updatedMessages)
dialogAnalyzeMessageOk(k, body) ==
    /\ InDialog
    /\ k \in 1..Len(calls)
    /\ Event
    /\ calls[k].kind = "flag"
    /\ messages' = DialogMergeFlagging(calls[k].allMessages, calls[k].message, body)
    /\ flaggedMessages' = IF Len(body.flags) > 0 THEN AppendFlags(flaggedMessages, body.flags)
                          ELSE flaggedMessages
    /\ messageCutoff' = CutoffAfter(messages, messages', messageCutoff)
    /\ calls' = RemoveAt(calls, k)
                \o Effects(messages', isFlaggingEnabled, isPrincipleScoringEnabled, isConnected)
    /\ principleVisualizationData' = VizEffect(selectedMode, messages', messageCutoff')
    /\ analysisRun' = Resolved(calls[k])
    /\ UNCHANGED << selectedMode, principleScores, switchVars, chatVars, flagsLogFilters,
                    filtered, exported, route, now >>

\* scorePrinciples after the await, response.ok: setMessages(updatedMessages)
dialogScorePrinciplesOk(k, body) ==
    /\ InDialog
    /\ k \in 1..Len(calls)
    /\ Event
    /\ calls[k].kind = "score"
    /\ messages' = DialogMergeScoring(calls[k].allMessages, calls[k].message, body)
    /\ principleScores' = IF Len(body.scores) > 0 THEN principleScores \o body.scores
                          ELSE principleScores
    /\ messageCutoff' = CutoffAfter(messages, messages', messageCutoff)
    /\ calls' = RemoveAt(calls, k)
                \o Effects(messages', isFlaggingEnabled, isPrincipleScoringEnabled, isConnected)
    /\ principleVisualizationData' = VizEffect(selectedMode, messages', messageCutoff')
    /\ analysisRun' = Resolved(calls[k])
    /\ UNCHANGED << selectedMode, flaggedMessages, switchVars, chatVars, flagsLogFilters,
                    filtered, exported, route, now >>

\* analyzeMessage / scorePrinciples after the await, non-OK response or
\* exception: the error is logged, no state is set
dialogCallFailed(k, failure) ==
    /\ InDialog
    /\ k \in 1..Len(calls)
    /\ Event
    /\ calls' = RemoveAt(calls, k)
    /\ analysisRun' = Resolved(calls[k])
    /\ UNCHANGED << selectedMode, principleVisualizationData, messages, messageCutoff, listVars,
                    switchVars, chatVars, flagsLogFilters, filtered, exported, route, now >>

----------------------------------------------------------------------------
(* DialogAnalysisPanel: Analyze All Messages *)

RECURSIVE NextAnalysis(_, _, _)
\* the for loop of runAnalysisOnAllMessages from message index, analysis step
\* on: the position of the next call it makes, << 0, "done" >> when it makes
\* none; the conditions read the messages and toggles of the closure
NextAnalysis(run, index, step) ==
    IF index > Len(run.messages) THEN << 0, "done" >>
    ELSE IF step = "flag"
         THEN IF ~IsDefined(run.messages[index].flaggingAnalysis) /\ run.isFlaggingEnabled
              THEN << index, "flag" >>
              ELSE NextAnalysis(run, index, "score")
         ELSE IF ~IsDefined(run.messages[index].principleScoring)
                 /\ run.isPrincipleScoringEnabled
              THEN << index, "score" >>
              ELSE NextAnalysis(run, index + 1, "flag")

\* the loop runs on from a position: it calls analyzeMessage(message, messages)
\* or scorePrinciples(message, messages) and awaits it, or it ends
RunOn(run, index, step) ==
    LET at == NextAnalysis(run, index, step)
        message == run.messages[at[1]]
    IN IF at[2] = "done"
       THEN [run |-> [run EXCEPT !.phase = "done"], calls |-> << >>]
       ELSE [run |-> [run EXCEPT !.phase = "awaiting", !.index = at[1], !.step = at[2]],
             calls |-> << [Call(at[2], message, run.messages,
                                DialogContext(message, run.messages), at[1])
                           EXCEPT !.awaited = TRUE] >>]

\* runAnalysisOnAllMessages: the click on Analyze All Messages, up to the
\* first await (one run at a time)
runAnalysisOnAllMessages ==
    /\ InDialog
    /\ analysisRun.phase \in { "idle", "done" }
    /\ Event
    /\ IF ~isConnected \/ Len(messages) = 0
       THEN UNCHANGED << analysisRun, calls >>
       ELSE LET on == RunOn([NoRun EXCEPT !.messages = messages,
                                          !.isFlaggingEnabled = isFlaggingEnabled,
                                          !.isPrincipleScoringEnabled =
                                              isPrincipleScoringEnabled], 1, "flag")
            IN /\ analysisRun' = on.run
               /\ calls' = calls \o on.calls
    /\ UNCHANGED << selectedMode, messages, messageCutoff, listVars, switchVars, chatVars,
                    principleVisualizationData, flagsLogFilters, filtered, exported, route,
                    now >>

\* the 1 s pause after an awaited call is over: the loop runs on with the
\* next analysis of the same message, or the next message
delayElapsed ==
    /\ InDialog
    /\ analysisRun.phase = "delay"
    /\ LET on == IF analysisRun.step = "flag"
                 THEN RunOn(analysisRun, analysisRun.index, "score")
                 ELSE RunOn(analysisRun, analysisRun.index + 1, "flag")
       IN /\ analysisRun' = on.run
          /\ calls' = calls \o on.calls
    /\ UNCHANGED << selectedMode, messages, messageCutoff, listVars, switchVars, chatVars,
                    principleVisualizationData, flagsLogFilters, filtered, exported, route,
                    events, now >>

\* a connected DialogAnalysisPanel with an uploaded transcript; the last
\* message is either waiting for its automatic analysis or carries the results
\* of one flagging and one scoring call
InitAnalyzeAll ==
    /\ selectedMode = "dialog-analysis"
    /\ now = 0
    /\ isConnected = TRUE
    /\ isFlaggingEnabled \in BOOLEAN
    /\ isPrincipleScoringEnabled \in BOOLEAN
    /\ \E text \in Transcripts, analysed \in BOOLEAN,
          flagging \in FlagResponses, scoring \in ScoreResponses :
        LET parsed == parseConversationFile(text, 0)
            lastMessage == parsed[Len(parsed)]
        IN /\ Len(parsed) > 0
           /\ IF analysed
              THEN /\ messages = DialogMergeScoring(
                                     DialogMergeFlagging(parsed, lastMessage, flagging),
                                     lastMessage, scoring)
                   /\ flaggedMessages = flagging.flags
                   /\ principleScores = scoring.scores
              ELSE /\ messages = parsed
                   /\ flaggedMessages = << >>
                   /\ principleScores = << >>
    /\ messageCutoff = Len(messages)
    /\ flagsLogFilters = NoFilters
    /\ chats = << >>
    /\ timers = << >>
    /\ calls = AutoCalls(messages, isFlaggingEnabled, isPrincipleScoringEnabled, isConnected)
    /\ events = 0
    /\ principleVisualizationData = VizEffect(selectedMode, messages, messageCutoff)
    /\ filtered = NoView
    /\ exported = NoExport
    /\ route = NoRoute
    /\ analysisRun = NoRun

\* every call succeeds
NextAnalyzeAll ==
    \/ runAnalysisOnAllMessages
    \/ delayElapsed
    \/ \E k \in 1..Len(calls), body \in FlagResponses : dialogAnalyzeMessageOk(k, body)
    \/ \E k \in 1..Len(calls), body \in ScoreResponses : dialogScorePrinciplesOk(k, body)

SpecAnalyzeAll == InitAnalyzeAll /\ [][NextAnalyzeAll]_vars

----------------------------------------------------------------------------
(* The dashboard with its two panels *)

Modes == { "dialog-analysis", "default-chat", "custom-workflow" }

Next ==
    \/ \E mode \in Modes : handleModeSelect(mode)
    \/ handleBack
    \/ handleApiKeySet
    \/ toggleFlagging
    \/ togglePrincipleScoring
    \/ \E n \in 1..MaxEvents : setMessageCutoff(n)
    \/ \E content \in UserInputs : handleSendMessage(content)
    \/ \E k \in 1..MaxEvents, reply \in ChatReplies : chatResponse(k, reply)
    \/ \E k \in 1..MaxEvents : chatFailure(k)
    \/ timerFires
    \/ \E k \in 1..Len(calls), body \in FlagResponses : analyzeMessageOk(k, body)
    \/ \E k \in 1..Len(calls), failure \in Failures : analyzeMessageFailed(k, failure)
    \/ \E k \in 1..Len(calls), body \in ScoreResponses : scorePrinciplesOk(k, body)
    \/ \E k \in 1..Len(calls), failure \in Failures : scorePrinciplesFailed(k, failure)
    \/ \E text \in Transcripts : handleFileUpload(text)
    \/ \E k \in 1..Len(calls), body \in FlagResponses : dialogAnalyzeMessageOk(k, body)
    \/ \E k \in 1..Len(calls), body \in ScoreResponses : dialogScorePrinciplesOk(k, body)
    \/ \E k \in 1..Len(calls), failure \in Failures : dialogCallFailed(k, failure)

Spec == Init /\ [][Next]_vars

----------------------------------------------------------------------------
(* The flags log: cutoff and filters *)

\* getFilteredFlags looking the owning message up in the whole list, not in the cutoff window
getFilteredFlagsAnywhere(msgs, flags, cutoff, filters) ==
    SelectSeq(flags, LAMBDA flag :
        /\ \E i \in 1..Len(msgs) :
                /\ msgs[i].id = flag.messageId
                /\ filters.messageType \in { "all", msgs[i].type }
        /\ filters.flagCategory \in { "all", flag.type }
        /\ filters.severityLevel \in { "all", flag.severity })

\* getFilteredFlags
getFilteredFlags(msgs, flags, cutoff, filters) ==
    LET filteredMessages == getFilteredMessages(msgs, cutoff)
        Keep(flag) ==
            LET found == { i \in 1..Len(filteredMessages) :
                             filteredMessages[i].id = flag.messageId }
            IN IF found = {} THEN FALSE
               ELSE LET flaggedMessage ==
                            filteredMessages[CHOOSE i \in found : \A j \in found : i <= j]
                    IN IF filters.messageType # "all"
                          /\ flaggedMessage.type # filters.messageType
                       THEN FALSE
                       ELSE IF filters.flagCategory # "all"
                               /\ flag.type # filters.flagCategory
                       THEN FALSE
                       ELSE IF filters.severityLevel # "all"
                               /\ flag.severity # filters.severityLevel
                       THEN FALSE
                       ELSE TRUE
    IN SelectSeq(flags, Keep)

\* getUniqueCategories
getUniqueCategories(flags) == { flags[i].type : i \in 1..Len(flags) }

\* getUniqueSeverities
getUniqueSeverities(flags) == { flags[i].severity : i \in 1..Len(flags) }

\* what a render of the flags log evaluates
View(msgs, flags, cutoff, filters) ==
    [messages |-> getFilteredMessages(msgs, cutoff),
     flags |-> getFilteredFlags(msgs, flags, cutoff, filters)]

MaxViewMessages == 2      \* messages of a rendered list
MaxViewFlags == 1         \* flags of a rendered flag list

\* the message a send (type user) or a reply (type ai) at clock value t appends
ViewMessage(type, t) ==
    NewMessage("msg-" \o ToString(t) \o (IF type = "ai" THEN "-ai" ELSE ""), type,
               IF type = "ai" THEN "reply-1" ELSE "I feel overwhelmed lately", t)

\* message lists of the chat panel: the clock never goes back
ViewMessageLists ==
    UNION { { [i \in 1..n |-> ViewMessage(ty[i], ts[i])] :
                ty \in [1..n -> { "user", "ai" }],
                ts \in { f \in [1..n -> 0..MaxClock] :
                           \A i \in 1..n, j \in 1..n : i <= j => f[i] <= f[j] } } :
            n \in 0..MaxViewMessages }

\* the kinds of flag NewFlags produces for the route's bodies
ViewFlagKinds ==
    { << "emotional-distress", "high" >>, << "emotional-distress", "low" >>,
      << "over-reliance-ai", "low" >> }

ViewFlags ==
    { [messageId |-> id, type |-> k[1], severity |-> k[2],
       reason |-> "Content flagged for " \o k[1] \o " with " \o k[2] \o " severity",
       flaggedText |-> "I feel overwhelmed lately", resolved |-> FALSE] :
        id \in { "msg-0", "msg-1-ai" }, k \in ViewFlagKinds }

ViewFlagLists == UNION { [1..n -> ViewFlags] : n \in 0..MaxViewFlags }

\* a mounted, connected chat panel about to render its flags log
InitFilter ==
    /\ selectedMode = "default-chat"
    /\ now = MaxClock
    /\ messages \in ViewMessageLists
    /\ flaggedMessages \in ViewFlagLists
    /\ principleScores = << >>
    /\ messageCutoff \in 0..MaxViewMessages
    /\ flagsLogFilters = NoFilters
    /\ isConnected = TRUE
    /\ isFlaggingEnabled = TRUE
    /\ isPrincipleScoringEnabled = TRUE
    /\ chats = << >>
    /\ timers = << >>
    /\ calls = << >>
    /\ events = 0
    /\ principleVisualizationData = VizEffect(selectedMode, messages, messageCutoff)
    /\ filtered = View(messages, flaggedMessages, messageCutoff, flagsLogFilters)
    /\ exported = NoExport
    /\ route = NoRoute
    /\ analysisRun = NoRun

panelVars == << selectedMode, messages, listVars, switchVars, chatVars, calls, events, now,
               exported, route, analysisRun >>

\* onChange of the cutoff slider, and the render that follows
slideMessageCutoff(n) ==
    /\ Len(messages) > 0
    /\ n \in 1..Len(messages)
    /\ messageCutoff' = n
    /\ filtered' = View(messages, flaggedMessages, n, flagsLogFilters)
    /\ principleVisualizationData' = VizEffect(selectedMode, messages, n)
    /\ UNCHANGED << panelVars, flagsLogFilters >>

\* setFlagsLogFilters and the render that follows
setFlagsLogFilters(filters) ==
    /\ flagsLogFilters' = filters
    /\ filtered' = View(messages, flaggedMessages, messageCutoff, filters)
    /\ UNCHANGED << panelVars, messageCutoff, principleVisualizationData >>

\* onChange of the Message Type select
selectMessageType(v) ==
    /\ v \in { "all", "user", "ai" }
    /\ setFlagsLogFilters([flagsLogFilters EXCEPT !.messageType = v])

\* onChange of the Category select
selectFlagCategory(v) ==
    /\ v \in { "all" } \cup getUniqueCategories(flaggedMessages)
    /\ setFlagsLogFilters([flagsLogFilters EXCEPT !.flagCategory = v])

\* onChange of the Severity select
selectSeverityLevel(v) ==
    /\ v \in { "all" } \cup getUniqueSeverities(flaggedMessages)
    /\ setFlagsLogFilters([flagsLogFilters EXCEPT !.severityLevel = v])

\* onClick of Clear Filters
clearFilters == setFlagsLogFilters(NoFilters)

NextFilter ==
    \/ \E n \in 1..(MaxViewMessages + 1) : slideMessageCutoff(n)
    \/ \E v \in { "all", "user", "ai" } : selectMessageType(v)
    \/ \E v \in { "all", "emotional-distress", "over-reliance-ai" } : selectFlagCategory(v)
    \/ \E v \in { "all", "high", "low" } : selectSeverityLevel(v)
    \/ clearFilters

SpecFilter == InitFilter /\ [][NextFilter]_vars

----------------------------------------------------------------------------
(* Summary and export *)

\* conversationHistory of a summary request
ConversationHistory(msgs) ==
    [i \in 1..Len(msgs) |->
        [role |-> IF msgs[i].type = "user" THEN "user" ELSE "assistant",
         content |-> msgs[i].content, timestamp |-> msgs[i].timestamp]]

\* flaggedContent of a summary request
FlaggedContent(flags) ==
    [i \in 1..Len(flags) |->
        [type |-> flags[i].type, severity |-> flags[i].severity, reason |-> flags[i].reason,
         flaggedText |-> flags[i].flaggedText]]

\* findIndex: the 0-based index of the first message with the id, -1 when there is none
FindIndex(msgs, id) ==
    LET found == { i \in 1..Len(msgs) : msgs[i].id = id }
    IN IF found = {} THEN -1 ELSE (CHOOSE i \in found : \A j \in found : i <= j) - 1

\* the score records of the principle section of the PDF, in the order pushed
RECURSIVE PrincipleRecords(_, _)
PrincipleRecords(scored, filteredMessages) ==
    IF scored = << >> THEN << >>
    ELSE LET message == Head(scored)
             scores == Value(message.principleScoring).scores
         IN [j \in 1..Len(scores) |->
                [messageId |-> message.id,
                 messageIndex |-> FindIndex(filteredMessages, message.id) + 1,
                 principleId |-> scores[j].principleId, score |-> scores[j].score,
                 type |-> message.type]]
            \o PrincipleRecords(Tail(scored), filteredMessages)

\* InteractivePanel.generateSummary up to fetch('/api/summary')
generateSummary ==
    /\ isConnected
    /\ Len(messages) > 0
    /\ LET filteredMessages == getFilteredMessages(messages, messageCutoff)
       IN exported' =
            [kind |-> "summary",
             conversationHistory |-> ConversationHistory(filteredMessages),
             flaggedContent |->
                FlaggedContent(SelectSeq(flaggedMessages, LAMBDA flag :
                    \E i \in 1..Len(filteredMessages) :
                        filteredMessages[i].id = flag.messageId)),
             principleRecords |-> << >>]
    /\ UNCHANGED << selectedMode, messages, listVars, switchVars, chatVars, calls, events, now,
                    messageCutoff, flagsLogFilters, filtered, principleVisualizationData,
                    route, analysisRun >>

\* exportAnalysisToPDF of components/InteractivePanel.tsx with no summary generated
\* before: the inline summary request and the principle section
exportAnalysisToPDF ==
    /\ isConnected
    /\ Len(messages) > 0
    /\ LET filteredMessages == getFilteredMessages(messages, messageCutoff)
           messagesWithPrincipleScoring ==
               SelectSeq(messages, LAMBDA msg : IsDefined(msg.principleScoring))
       IN exported' =
            [kind |-> "pdf",
             conversationHistory |-> ConversationHistory(messages),
             flaggedContent |-> FlaggedContent(flaggedMessages),
             principleRecords |->
                PrincipleRecords(messagesWithPrincipleScoring, filteredMessages)]
    /\ UNCHANGED << selectedMode, messages, listVars, switchVars, chatVars, calls, events, now,
                    messageCutoff, flagsLogFilters, filtered, principleVisualizationData,
                    route, analysisRun >>

\* a connected chat panel whose messages are all scored or all unscored and
\* whose flags all belong to messages of the list
InitExport ==
    /\ selectedMode = "default-chat"
    /\ now = MaxClock
    /\ \E list \in ViewMessageLists, scored \in BOOLEAN :
          messages = IF scored
                     THEN [i \in 1..Len(list) |->
                             [list[i] EXCEPT !.principleScoring =
                                 Some(Scoring(list[i], [success |-> TRUE,
                                                        scores |-> RouteScores(3)]))]]
                     ELSE list
    /\ flaggedMessages \in ViewFlagLists
    /\ \A i, j \in 1..Len(messages) : messages[i].id = messages[j].id => i = j
    /\ \A i \in 1..Len(flaggedMessages) :
          \E j \in 1..Len(messages) : messages[j].id = flaggedMessages[i].messageId
    /\ principleScores = << >>
    /\ messageCutoff \in 0..MaxViewMessages
    /\ flagsLogFilters = NoFilters
    /\ isConnected = TRUE
    /\ isFlaggingEnabled = TRUE
    /\ isPrincipleScoringEnabled = TRUE
    /\ chats = << >>
    /\ timers = << >>
    /\ calls = << >>
    /\ events = 0
    /\ principleVisualizationData = VizEffect(selectedMode, messages, messageCutoff)
    /\ filtered = View(messages, flaggedMessages, messageCutoff, flagsLogFilters)
    /\ exported = NoExport
    /\ route = NoRoute
    /\ analysisRun = NoRun

NextExport ==
    \/ generateSummary
    \/ exportAnalysisToPDF

SpecExport == InitExport /\ [][NextExport]_vars

----------------------------------------------------------------------------
(* API routes: /api/flag *)

\* the API keys a request carries: none, the demo sentinel, a key of the provider's form
ApiKeys == { "", "test", "sk-0123456789abcdefghij" }

\* severityBreakdown properties of flaggingSchema, the schema of the structured output
SchemaCategories ==
    << "emotional-distress", "emotional-dysregulation-escalation",
       "persistence-of-distress", "social-withdrawal-lack-of-support", "over-reliance-ai" >>

\* a breakdown over the given categories: `sev` for those in `hit`, `none` for the others
BreakdownOver(categories, hit, sev) ==
    [i \in 1..Len(categories) |->
        << categories[i], IF categories[i] \in hit THEN sev ELSE "none" >>]

\* what the provider answers to the flagging prompt: the message content of
\* the completion (JSON that parses directly, first the structured output
\* that follows flaggingSchema, then json_object answers; JSON in a markdown
\* fence; plain text), no content, or an API error
FlagProviderResponses ==
    { [kind |-> "json", shouldFlag |-> Some(TRUE), reasoning |-> "User expresses distress.",
       severityBreakdown |-> Some(BreakdownOver(SchemaCategories, {"emotional-distress"}, "high")),
       flags |-> Some(<< [type |-> "emotional-distress", severity |-> "high",
                          reason |-> "expresses distress", flaggedText |-> "overwhelmed"] >>)],
      [kind |-> "json", shouldFlag |-> Some(FALSE), reasoning |-> "No concerns found.",
       severityBreakdown |-> Some(BreakdownOver(RouteCategories, {"persistence-of-distress"},
                                                "High")),
       flags |-> Some(<< >>)],
      [kind |-> "json", shouldFlag |-> Undefined, reasoning |-> "",
       severityBreakdown |-> Undefined, flags |-> Undefined],
      [kind |-> "json", shouldFlag |-> Some(TRUE), reasoning |-> "Two passages show distress.",
       severityBreakdown |-> Some(BreakdownOver(SchemaCategories, {"emotional-distress"}, "medium")),
       flags |-> Some(<< [type |-> "emotional-distress", severity |-> "medium",
                          reason |-> "expresses distress", flaggedText |-> "overwhelmed"],
                         [type |-> "emotional-distress", severity |-> "low",
                          reason |-> "duration of the distress", flaggedText |-> "lately"] >>)],
      [kind |-> "fenced", shouldFlag |-> Some(TRUE), reasoning |-> "User expresses distress.",
       severityBreakdown |-> Some(BreakdownOver(RouteCategories, {"over-reliance-ai"}, "severe")),
       flags |-> Some(<< [type |-> "over-reliance-ai", severity |-> "severe",
                          reason |-> "relies on the assistant", flaggedText |-> "only you"] >>)],
      [kind |-> "fenced", shouldFlag |-> Undefined, reasoning |-> "",
       severityBreakdown |-> Undefined, flags |-> Undefined],
      [kind |-> "text", text |-> "The user sounds overwhelmed"],
      [kind |-> "text", text |-> "This seems concerning"],
      [kind |-> "text", text |-> "Nothing to report"],
      [kind |-> "empty"],
      [kind |-> "error", status |-> 401],
      [kind |-> "error", status |-> 503] }

\* (v ?? '').toString().trim().toLowerCase() on the severities above
ToLowerCase(raw) == IF raw = "High" THEN "high" ELSE raw

\* analysisText.includes('concerning') || ... || analysisText.includes('overwhelmed')
HasKeyword(text) == text \in { "The user sounds overwhelmed", "This seems concerning" }

\* the flags array after severity normalisation
NormalizeFlags(flags) ==
    [i \in 1..Len(flags) |->
        [type |-> flags[i].type,
         severity |-> IF ToLowerCase(flags[i].severity) \in {"low", "medium", "high"}
                      THEN ToLowerCase(flags[i].severity) ELSE "low",
         reason |-> flags[i].reason, flaggedText |-> flags[i].flaggedText]]

\* the severityBreakdown object after normalisation: the keys it had, each
\* value lower-cased and `none` when it is not an allowed severity
NormalizeBreakdown(breakdown) ==
    [i \in 1..Len(breakdown) |->
        << breakdown[i][1],
           IF ToLowerCase(breakdown[i][2]) \in {"none", "low", "medium", "high"}
           THEN ToLowerCase(breakdown[i][2]) ELSE "none" >>]

\* flaggingResult after JSON.parse (direct or cleaned) and "Validate essential fields"
ValidateFlaggingResult(json) ==
    [shouldFlag |-> IF IsDefined(json.shouldFlag) THEN Value(json.shouldFlag) ELSE FALSE,
     reasoning |-> IF json.reasoning = "" THEN "Analysis completed successfully."
                   ELSE json.reasoning,
     severityBreakdown |-> IF IsDefined(json.severityBreakdown)
                           THEN Value(json.severityBreakdown)
                           ELSE BreakdownOver(RouteCategories, {}, "none"),
     flags |-> IF IsDefined(json.flags) THEN Value(json.flags) ELSE << >>]

\* flaggingResult of the final fallback, built from keywords of the raw text
KeywordFallback(text) ==
    [shouldFlag |-> HasKeyword(text),
     reasoning |-> IF HasKeyword(text)
                   THEN "Analysis detected potential concerns in the content. Raw analysis: "
                        \o text \o "..."
                   ELSE "Analysis completed successfully. No concerning content detected.",
     severityBreakdown |->
        BreakdownOver(RouteCategories,
                      IF HasKeyword(text)
                      THEN {"emotional-distress", "human-intervention-recommended"} ELSE {},
                      "medium"),
     flags |-> IF HasKeyword(text)
               THEN << [type |-> "emotional-distress", severity |-> "medium",
                        reason |-> "Detected language indicating emotional distress",
                        flaggedText |-> text \o "..."] >>
               ELSE << >>]

\* the 200 body: severities normalised, reasoning replaced by the concise summary
FlaggingBody(result) ==
    [shouldFlag |-> result.shouldFlag,
     reasoning |-> IF Len(result.flags) > 0 THEN "Flags: " \o result.reasoning
                   ELSE result.reasoning,
     fullReasoning |-> result.reasoning,
     severityBreakdown |-> Some(NormalizeBreakdown(result.severityBreakdown)),
     flags |-> NormalizeFlags(result.flags)]

\* POST of /api/flag: status, body and number of provider requests
FlagRoute(apiKey, resp) ==
    IF apiKey = ""
    THEN [status |-> 400, providerCalls |-> 0, body |-> [error |-> "OpenAI API key is required"]]
    ELSE IF resp.kind = "error"
    THEN [status |-> IF resp.status = 401 THEN 401 ELSE 500, providerCalls |-> 2,
          body |-> [error |-> "Failed to analyze content for flags."]]
    ELSE IF resp.kind = "empty"
    THEN [status |-> 500, providerCalls |-> 1,
          body |-> [error |-> "No response from flagging system"]]
    ELSE [status |-> 200, providerCalls |-> 1,
          body |-> FlaggingBody(IF resp.kind = "text" THEN KeywordFallback(resp.text)
                                ELSE ValidateFlaggingResult(resp))]

\* severityBreakdown keys of the ethics version of the route
EthicsCategories == << "ethical-concern", "harmful-content", "misinformation", "bias", "other" >>

\* analysisText.includes('concerning') || ... || analysisText.includes('inappropriate')
LegacyHasKeyword(text) == text = "This seems concerning"

\* flaggingResult of the ethics version after JSON.parse and validation
LegacyValidateFlaggingResult(json) ==
    [shouldFlag |-> IF IsDefined(json.shouldFlag) THEN Value(json.shouldFlag) ELSE FALSE,
     reasoning |-> IF json.reasoning = "" THEN "Analysis completed successfully."
                   ELSE json.reasoning,
     severityBreakdown |-> Some(IF IsDefined(json.severityBreakdown)
                                THEN Value(json.severityBreakdown)
                                ELSE BreakdownOver(EthicsCategories, {}, "none")),
     flags |-> IF IsDefined(json.flags) THEN Value(json.flags) ELSE << >>]

\* flaggingResult of the final fallback of the ethics version
LegacyKeywordFallback(text) ==
    [shouldFlag |-> LegacyHasKeyword(text),
     reasoning |-> IF LegacyHasKeyword(text)
                   THEN "Analysis detected potential concerns in the content. Raw analysis: "
                        \o text \o "..."
                   ELSE "Analysis completed successfully. No concerning content detected.",
     severityBreakdown |->
        Some(BreakdownOver(EthicsCategories,
                           IF LegacyHasKeyword(text) THEN {"ethical-concern", "other"} ELSE {},
                           "medium")),
     flags |-> IF LegacyHasKeyword(text)
               THEN << [type |-> "other", severity |-> "medium",
                        reason |-> "Content analysis detected potential concerns",
                        flaggedText |-> text \o "..."] >>
               ELSE << >>]

\* POST of the ethics version of /api/flag
LegacyFlagRoute(apiKey, resp) ==
    IF apiKey = ""
    THEN [status |-> 400, providerCalls |-> 0, body |-> [error |-> "OpenAI API key is required"]]
    ELSE IF resp.kind = "error"
    THEN [status |-> IF resp.status = 401 THEN 401 ELSE 500, providerCalls |-> 2,
          body |-> [error |-> "Failed to analyze content for flags."]]
    ELSE IF resp.kind = "empty"
    THEN [status |-> 500, providerCalls |-> 1,
          body |-> [error |-> "No response from flagging system"]]
    ELSE [status |-> 200, providerCalls |-> 1,
          body |-> IF resp.kind = "text" THEN LegacyKeywordFallback(resp.text)
                   ELSE LegacyValidateFlaggingResult(resp)]

\* a request on its way to a route: the endpoint and version, the key of the
\* body, and what the provider and the random generator will answer
Pending(endpoint, version, apiKey, raw) ==
    [endpoint |-> endpoint, version |-> version, apiKey |-> apiKey, raw |-> raw,
     submit |-> "none", served |-> FALSE, providerCalls |-> 0, status |-> 0, body |-> << >>]

\* the request with the route's response
Served(request, r) ==
    [request EXCEPT !.served = TRUE, !.providerCalls = r.providerCalls,
                    !.status = r.status, !.body = r.body]

routeVars == << selectedMode, messageCutoff, flagsLogFilters, isFlaggingEnabled,
                isPrincipleScoringEnabled, chats, calls, events, now, filtered, exported,
                analysisRun >>

\* !apiKey.startsWith('sk-') || apiKey.length < 20, negated
LooksLikeOpenAIKey(apiKey) == Len(apiKey) >= 20 /\ SubSeq(apiKey, 1, 3) = "sk-"

\* ApiKeyInput.handleSubmit without base URL, with the key of the request
\* typed in: the form check, then the test request to /api/chat (a route
\* outside the source: whether it answers OK is an input)
handleSubmit ==
    /\ ~isConnected
    /\ route.submit = "none"
    /\ route.apiKey # ""
    /\ IF ~LooksLikeOpenAIKey(route.apiKey)
       THEN /\ route' = [route EXCEPT !.submit = "alert"]
            /\ UNCHANGED isConnected
       ELSE \E ok \in BOOLEAN :
            /\ route' = [route EXCEPT !.submit = IF ok THEN "connected" ELSE "refused"]
            /\ isConnected' = ok
    /\ UNCHANGED << routeVars, messages, flaggedMessages, principleScores, timers,
                    principleVisualizationData >>

\* /api/flag serves the request
flagPOST ==
    /\ route.endpoint = "flag"
    /\ ~route.served
    /\ route' = Served(route, IF route.version = "legacy"
                              THEN LegacyFlagRoute(route.apiKey, route.raw)
                              ELSE FlagRoute(route.apiKey, route.raw))
    /\ UNCHANGED << routeVars, isConnected, messages, flaggedMessages, principleScores,
                    timers, principleVisualizationData >>

\* InteractivePanel.analyzeMessage after the await, for the last message
analyzeMessage ==
    /\ isConnected
    /\ route.endpoint = "flag"
    /\ route.served
    /\ Len(messages) > 0
    /\ ~IsDefined(messages[Len(messages)].flaggingAnalysis)
    /\ LET message == messages[Len(messages)]
       IN IF route.status = 200
          THEN /\ messages' = MergeFlagging(messages, message, route.body)
               /\ flaggedMessages' = AppendFlags(flaggedMessages, NewFlags(message, route.body))
          ELSE /\ messages' = MergeFlaggingFallback(messages, message, "http-error")
               /\ UNCHANGED flaggedMessages
    /\ principleVisualizationData' = VizEffect(selectedMode, messages', messageCutoff)
    /\ UNCHANGED << routeVars, isConnected, principleScores, timers, route >>

----------------------------------------------------------------------------
(* API routes: /api/principle_scoring *)

\* the two versions of the scoring route
RouteVersions == { "current", "legacy" }

\* ids of PRINCIPLES of the version
RoutePrinciples(version) ==
    IF version = "legacy" THEN << "transparency", "respect", "accountability", "fairness" >>
    ELSE PRINCIPLES

\* the `score` member of the JSON the provider returns: an integer, a decimal
\* (whole part and tenths), a word, or no member
RawScores ==
    { [t |-> "int", whole |-> n, tenths |-> 0, negative |-> n < 0] : n \in { -7, -5, 0, 3, 5, 7 } }
    \cup { [t |-> "dec", whole |-> 5, tenths |-> 9, negative |-> FALSE],
           [t |-> "dec", whole |-> -6, tenths |-> 2, negative |-> TRUE],
           [t |-> "str", whole |-> 0, tenths |-> 0, negative |-> FALSE],
           [t |-> "missing", whole |-> 0, tenths |-> 0, negative |-> FALSE] }

\* what the provider answers for one principle
ScoreProviderResponses ==
    { [kind |-> "json", score |-> raw, reasoning |-> "scored by the model", text |-> ""] :
        raw \in RawScores }
    \cup { [kind |-> "fenced", score |-> raw, reasoning |-> "", text |-> ""] :
             raw \in { r \in RawScores : r.t = "int" /\ r.whole \in { -7, 3 } } }
    \cup { [kind |-> "text", score |-> [t |-> "missing", whole |-> 0, tenths |-> 0,
                                        negative |-> FALSE],
            reasoning |-> "", text |-> text] :
             text \in { "score: 9 of 5", "The reply is good.", "garbled" } }
    \cup { [kind |-> k, score |-> [t |-> "missing", whole |-> 0, tenths |-> 0,
                                   negative |-> FALSE],
            reasoning |-> "", text |-> ""] : k \in { "empty", "error" } }

\* Math.floor(Math.random() * 11) - 5, per principle
MockScores == [1..4 -> { -5, 0, 4 }]

\* parseInt(x): the integer an integer or decimal starts with, NaN (absent) otherwise
ParseInt(raw) ==
    IF raw.t \in { "int", "dec" } THEN Some(raw.whole) ELSE Undefined

\* the score is passed on as parsed
NoClamp(n) == n

\* Math.max(-5, Math.min(5, n))
ClampScore(n) == Max(-5, Min(5, n))

\* Math.max(-5, Math.min(5, parseInt(x) || 0))
NormalizeScore(raw) ==
    ClampScore(IF IsDefined(ParseInt(raw)) THEN Value(ParseInt(raw)) ELSE 0)

\* principleResponse.match(/score[:\s]*(-?\d+)/i) on the texts above
ScoreMatch(text) ==
    IF text = "score: 9 of 5"
    THEN Some([t |-> "int", whole |-> 9, tenths |-> 0, negative |-> FALSE]) ELSE Undefined

\* the score inferred from sentiment words of the text
SentimentScore(text) == IF text = "The reply is good." THEN 2 ELSE 0

\* the text fallback of the current route: score pattern, then sentiment
ExtractFromText(text) ==
    LET extractedScore == IF IsDefined(ScoreMatch(text))
                          THEN NormalizeScore(Value(ScoreMatch(text))) ELSE 0
    IN [score |-> IF extractedScore = 0 THEN SentimentScore(text) ELSE extractedScore,
        reasoning |-> IF Len(text) > 10 THEN "Analysis: " \o text
                      ELSE "Analysis completed successfully."]

\* one iteration of `for (const principle of PRINCIPLES)`: the entry pushed
ScorePrinciple(version, principleId, isTestMode, mock, resp) ==
    LET mockScore == IF principleId \in { "transparency", "respect", "accountability",
                                          "fairness" }
                     THEN mock ELSE 0
        parsed ==
            IF isTestMode
            THEN [score |-> mockScore, reasoning |-> "Mock evaluation for " \o principleId]
            ELSE IF resp.kind = "error"
            THEN [score |-> 0, reasoning |-> "Error evaluating principle: provider error"]
            ELSE IF resp.kind = "empty"
            THEN [score |-> 0, reasoning |-> "No response from evaluation system"]
            ELSE IF resp.kind \in { "json", "fenced" }
            THEN [score |-> NormalizeScore(resp.score),
                  reasoning |-> IF resp.reasoning # "" THEN resp.reasoning
                                ELSE IF version = "legacy" /\ resp.kind = "json"
                                THEN "No reasoning provided"
                                ELSE "Analysis completed successfully."]
            ELSE IF version = "legacy"
            THEN [score |-> 0,
                  reasoning |-> "Analysis completed with parsing error: " \o resp.text \o "..."]
            ELSE ExtractFromText(resp.text)
    IN [principleId |-> principleId, score |-> parsed.score, reasoning |-> parsed.reasoning]

\* POST of /api/principle_scoring: resps[i] is the provider's answer for the
\* i-th principle, mocks[i] the random number drawn for it in test mode
ScoreRoute(version, apiKey, mocks, resps) ==
    LET isTestMode == apiKey \in { "test", "demo" }
        principles == RoutePrinciples(version)
    IN IF apiKey = ""
       THEN [status |-> 400, providerCalls |-> 0,
             body |-> [success |-> FALSE, scores |-> << >>]]
       ELSE [status |-> 200,
             providerCalls |-> IF isTestMode THEN 0 ELSE Len(principles),
             body |-> [success |-> TRUE,
                       scores |-> [i \in 1..Len(principles) |->
                                     ScorePrinciple(version, principles[i], isTestMode,
                                                    mocks[i], resps[i])]]]

\* the inputs of one scoring request: random numbers in test mode, provider
\* answers otherwise (one for the first principle, one for the others)
NoMocks == [i \in 1..4 |-> 0]

NoScoreResponse ==
    [kind |-> "empty", score |-> [t |-> "missing", whole |-> 0, tenths |-> 0,
                                  negative |-> FALSE],
     reasoning |-> "", text |-> ""]

ScoreInputs(apiKey) ==
    IF apiKey \in { "test", "demo" }
    THEN { [mocks |-> m, resps |-> [i \in 1..4 |-> NoScoreResponse]] : m \in MockScores }
    ELSE { [mocks |-> NoMocks, resps |-> [i \in 1..4 |-> IF i = 1 THEN r1 ELSE r2]] :
            r1 \in ScoreProviderResponses,
            r2 \in { r \in ScoreProviderResponses :
                        r.kind \in { "empty", "text" }
                        \/ (r.kind = "json" /\ r.score.t = "int" /\ r.score.whole = 3) } }

\* /api/principle_scoring serves the request
principleScoringPOST ==
    /\ route.endpoint = "principle_scoring"
    /\ ~route.served
    /\ route' = Served(route, ScoreRoute(route.version, route.apiKey, route.raw.mocks,
                                         route.raw.resps))
    /\ UNCHANGED << routeVars, isConnected, messages, flaggedMessages, principleScores,
                    timers, principleVisualizationData >>

\* InteractivePanel.scorePrinciples after the await, for the last message
scorePrinciples ==
    /\ isConnected
    /\ route.endpoint = "principle_scoring"
    /\ route.served
    /\ Len(messages) > 0
    /\ ~IsDefined(messages[Len(messages)].principleScoring)
    /\ LET message == messages[Len(messages)]
       IN IF route.status = 200 /\ route.body.success
          THEN /\ principleScores' = principleScores \o Scoring(message, route.body).scores
               /\ messages' = MergeScoring(messages, message, Scoring(message, route.body))
               /\ timers' = Append(timers, VizTimer(message, messages'))
          ELSE /\ messages' = MergeScoring(messages, message,
                                           FallbackScoring(message, "http-error"))
               /\ UNCHANGED << principleScores, timers >>
    /\ principleVisualizationData' = VizEffect(selectedMode, messages', messageCutoff)
    /\ UNCHANGED << routeVars, isConnected, flaggedMessages, route >>

----------------------------------------------------------------------------
(* API routes: /api/summary *)

\* what the provider answers to the summary prompt
SummaryProviderResponses ==
    { [ok |-> TRUE, status |-> 200, content |-> "The user reports feeling overwhelmed."],
      [ok |-> TRUE, status |-> 200, content |-> ""],
      [ok |-> FALSE, status |-> 401, content |-> ""] }

\* POST of /api/summary
SummaryRoute(apiKey, conversationHistory, resp) ==
    IF apiKey = ""
    THEN [status |-> 400, providerCalls |-> 0, body |-> [error |-> "API key is required"]]
    ELSE IF Len(conversationHistory) = 0
    THEN [status |-> 400, providerCalls |-> 0,
          body |-> [error |-> "Conversation history is required"]]
    ELSE IF ~resp.ok
    THEN [status |-> resp.status, providerCalls |-> 1,
          body |-> [error |-> "API request failed with status " \o ToString(resp.status)]]
    ELSE [status |-> 200, providerCalls |-> 1,
          body |-> [summary |-> IF resp.content = "" THEN "No summary generated"
                                ELSE resp.content,
                    conversationLength |-> Len(conversationHistory)]]

\* /api/summary serves the request, made with the history below the cutoff
summaryPOST ==
    /\ route.endpoint = "summary"
    /\ ~route.served
    /\ route' = Served(route,
                       SummaryRoute(route.apiKey,
                                    ConversationHistory(getFilteredMessages(messages,
                                                                            messageCutoff)),
                                    route.raw))
    /\ UNCHANGED << routeVars, isConnected, messages, flaggedMessages, principleScores,
                    timers, principleVisualizationData >>

----------------------------------------------------------------------------
(* API routes: one request from input to merge *)

\* the requests drawn
Requests ==
    { Pending("flag", version, apiKey, resp) :
        version \in RouteVersions, apiKey \in ApiKeys, resp \in FlagProviderResponses }
    \cup UNION { { Pending("principle_scoring", version, apiKey, in) :
                      in \in ScoreInputs(apiKey) } :
                  version \in RouteVersions, apiKey \in ApiKeys }
    \cup { Pending("summary", "current", apiKey, resp) :
             apiKey \in ApiKeys, resp \in SummaryProviderResponses }

\* a chat panel with one user message, not yet connected, and a request
InitRoutes ==
    /\ selectedMode = "default-chat"
    /\ now = 0
    /\ messages = << NewMessage("msg-0", "user", "I feel overwhelmed lately", 0) >>
    /\ flaggedMessages = << >>
    /\ principleScores = << >>
    /\ messageCutoff = 0
    /\ flagsLogFilters = NoFilters
    /\ isConnected = FALSE
    /\ isFlaggingEnabled = TRUE
    /\ isPrincipleScoringEnabled = TRUE
    /\ chats = << >>
    /\ timers = << >>
    /\ calls = << >>
    /\ events = 0
    /\ principleVisualizationData = VizEffect(selectedMode, messages, messageCutoff)
    /\ filtered = NoView
    /\ exported = NoExport
    /\ route \in Requests
    /\ analysisRun = NoRun

NextRoutes ==
    \/ handleSubmit
    \/ flagPOST
    \/ analyzeMessage
    \/ principleScoringPOST
    \/ scorePrinciples
    \/ summaryPOST
    \/ timerFires

SpecRoutes == InitRoutes /\ [][NextRoutes]_vars

----------------------------------------------------------------------------
(* Properties of the cutoff and filter views, checked under SpecFilter *)

\* C9: getFilteredMessages, for a cutoff c with 0 <= c <= len(messages),
\* returns exactly the first c messages in their original order, and the
\* whole list when c = 0.
C9_CutoffPrefix ==
    messageCutoff <= Len(messages) =>
        filtered.messages = IF messageCutoff = 0 THEN messages
                            ELSE [i \in 1..messageCutoff |-> messages[i]]

\* a proper prefix has been rendered
C9_Witness ==
    /\ Len(messages) = 2
    /\ messageCutoff = 1
    /\ filtered.messages = << messages[1] >>

\* the owning message of a flag is in the cutoff window and the three filters
\* are each `all` or equal to the value of the flag or of its message
FlagSurvives(flag, view, filters) ==
    /\ \E i \in 1..Len(view) :
            /\ view[i].id = flag.messageId
            /\ filters.messageType = "all" \/ filters.messageType = view[i].type
    /\ filters.flagCategory = "all" \/ filters.flagCategory = flag.type
    /\ filters.severityLevel = "all" \/ filters.severityLevel = flag.severity

\* the filters differ only in one filter that was set to `all`
OnlySetToAll(old, new) ==
    \E field \in { "messageType", "flagCategory", "severityLevel" } :
        new = [old EXCEPT ![field] = "all"]

\* C10: getFilteredFlags returns a flag of the global flag list if and only
\* if its owning message is in getFilteredMessages() and each of the three
\* filters is `all` or matches; setting one filter to `all` with the others
\* fixed never removes a flag from the result.
C10_FilteredFlags ==
    /\ [](filtered.flags =
            SelectSeq(flaggedMessages,
                      LAMBDA flag : FlagSurvives(flag, filtered.messages, flagsLogFilters)))
    /\ [][(OnlySetToAll(flagsLogFilters, flagsLogFilters') /\ messageCutoff' = messageCutoff)
            => \A i \in 1..Len(filtered.flags) :
                  \E j \in 1..Len(filtered'.flags) : filtered'.flags[j] = filtered.flags[i]]_vars

\* a flag is hidden by the cutoff while another passes non-trivial filters
C10_Witness ==
    /\ flagsLogFilters.messageType = "user"
    /\ flagsLogFilters.severityLevel = "high"
    /\ Len(flaggedMessages) = 1
    /\ Len(filtered.flags) = 1
    /\ Len(filtered.messages) < Len(messages)

----------------------------------------------------------------------------
(* Properties of the analysis pipeline, checked under Spec *)

\* the requests in flight for the message id
CallsFor(id) == { k \in 1..Len(calls) : calls[k].message.id = id }

\* C1: whatever the order in which analyzer results arrive, a flagging result
\* and a principle-scoring result are attached to the message whose id the
\* call was issued for and to no other message: the result a message carries
\* names that message's id, and a result arriving in the chat panel changes
\* only messages whose id is the id of a call in flight.
C1_AttachedById ==
    /\ [](\A i \in 1..Len(messages) :
            /\ IsDefined(messages[i].flaggingAnalysis)
                  => Value(messages[i].flaggingAnalysis).messageId = messages[i].id
            /\ IsDefined(messages[i].principleScoring)
                  => Value(messages[i].principleScoring).messageId = messages[i].id)
    /\ [][InChat =>
            \A i \in 1..Len(messages) :
                (i <= Len(messages') /\ messages'[i] # messages[i])
                    => /\ CallsFor(messages[i].id) # {}
                       /\ messages'[i].id = messages[i].id]_vars

\* the result for the second message has arrived before the result for the first
C1_Witness ==
    /\ InChat
    /\ Len(messages) >= 2
    /\ messages[1].id # messages[2].id
    /\ ~IsDefined(messages[1].flaggingAnalysis)
    /\ \E k \in CallsFor(messages[1].id) : calls[k].kind = "flag"
    /\ IsDefined(messages[2].flaggingAnalysis)
    /\ IsDefined(messages[2].principleScoring)

\* the result of the flagging call k arrives
FlagResultArrives(k) ==
    \/ \E body \in FlagResponses : analyzeMessageOk(k, body) \/ dialogAnalyzeMessageOk(k, body)
    \/ \E failure \in Failures : analyzeMessageFailed(k, failure)

\* the result of the principle-scoring call k arrives
ScoreResultArrives(k) ==
    \/ \E body \in ScoreResponses : scorePrinciplesOk(k, body) \/ dialogScorePrinciplesOk(k, body)
    \/ \E failure \in Failures : scorePrinciplesFailed(k, failure)

\* the flagging call k fails
FlagCallFails(k) ==
    \E failure \in Failures :
        \/ analyzeMessageFailed(k, failure)
        \/ calls[k].kind = "flag" /\ dialogCallFailed(k, failure)

\* the principle-scoring call k fails
ScoreCallFails(k) ==
    \E failure \in Failures :
        \/ scorePrinciplesFailed(k, failure)
        \/ calls[k].kind = "score" /\ dialogCallFailed(k, failure)

\* the message list holds a message with the id
InList(id) == \E i \in 1..Len(messages) : messages[i].id = id

\* the message list still holds the message the call was issued for
StillInList(message) ==
    \E i \in 1..Len(messages) :
        /\ messages[i].id = message.id
        /\ messages[i].type = message.type
        /\ messages[i].content = message.content
        /\ messages[i].timestamp = message.timestamp

\* C2: for a message with a flagging call and a principle-scoring call in
\* flight at the same time, merging one result never removes or alters the
\* other result of the message, nor the annotations of any other message, so
\* that after both merges the message carries both.
C2_MergesIndependent ==
    [][\A k \in 1..Len(calls) :
          /\ (StillInList(calls[k].message) /\ FlagResultArrives(k))
                => /\ Len(messages') = Len(messages)
                   /\ \A i \in 1..Len(messages) :
                         /\ messages'[i].principleScoring = messages[i].principleScoring
                         /\ messages[i].id # calls[k].message.id => messages'[i] = messages[i]
          /\ (StillInList(calls[k].message) /\ ScoreResultArrives(k))
                => /\ Len(messages') = Len(messages)
                   /\ \A i \in 1..Len(messages) :
                         /\ messages'[i].flaggingAnalysis = messages[i].flaggingAnalysis
                         /\ messages'[i].flags = messages[i].flags
                         /\ messages'[i].severityBreakdown = messages[i].severityBreakdown
                         /\ messages[i].id # calls[k].message.id => messages'[i] = messages[i]]_vars

\* C3: when the message a call was issued for is no longer in the message
\* list as its result arrives, the merge is a no-op: the message list, the
\* global flag list and the global score list stay as they were.
C3_MissingMessageNoOp ==
    [][\A k \in 1..Len(calls) :
          (~InList(calls[k].message.id)
             /\ (FlagResultArrives(k) \/ ScoreResultArrives(k) \/ FlagCallFails(k)
                    \/ ScoreCallFails(k)))
            => UNCHANGED << messages, flaggedMessages, principleScores >>]_vars

\* the context window of the spec for the message at position pos of the list
WindowAt(pos) ==
    LET upTo == SubSeq(messages, 1, pos)
    IN IF messages[pos].type = "ai"
       THEN MapRoleContent(SliceLast(SelectSeq(upTo, IsAi), 5))
       ELSE MapRoleContent(SliceLast(upTo, 5))

\* C4: under every interleaving of sends and chat replies, the context sent
\* to the flagging analyzer for a message appended by handleSendMessage is,
\* for an assistant message, the last 5 assistant messages of the list with
\* the message included and, for a user message, the last 5 messages of any
\* role with the message included.
C4_FlaggingContext ==
    \A k \in 1..Len(calls) :
        (InChat /\ calls[k].kind = "flag") => calls[k].context = WindowAt(calls[k].pos)

\* C5: the context scorePrinciples sends for an assistant message is built
\* like the flagging context: the last 5 assistant messages with the message
\* included, and no user message.
C5_ScoringContextAssistantOnly ==
    \A k \in 1..Len(calls) :
        (InChat /\ calls[k].kind = "score" /\ calls[k].message.type = "ai")
            => /\ \A j \in 1..Len(calls[k].context) : calls[k].context[j].role = "assistant"
               /\ calls[k].context = WindowAt(calls[k].pos)

\* the fallback result of a failed flagging call
IsFlaggingFallback(msg) ==
    /\ IsDefined(msg.flaggingAnalysis)
    /\ Value(msg.flaggingAnalysis).shouldFlag = FALSE
    /\ Value(msg.flaggingAnalysis).flags = << >>
    /\ Value(msg.flaggingAnalysis).reasoning # ""
    /\ IsDefined(msg.severityBreakdown)
    /\ Len(Value(msg.severityBreakdown)) > 0
    /\ \A j \in 1..Len(Value(msg.severityBreakdown)) : Value(msg.severityBreakdown)[j][2] = "none"

\* C6: when a flagging call fails, the analyzed message ends with a
\* FlaggingAnalysis with shouldFlag false, no flags, a non-empty reasoning and
\* a severityBreakdown of `none` in every category; it is never left without
\* a flagging result.
C6_FlaggingFallback ==
    [][\A k \in 1..Len(calls) :
          FlagCallFails(k)
            => \A i \in 1..Len(messages') :
                  messages'[i].id = calls[k].message.id => IsFlaggingFallback(messages'[i])]_vars

\* the fallback result of a failed principle-scoring call
IsScoringFallback(msg) ==
    /\ IsDefined(msg.principleScoring)
    /\ LET scores == Value(msg.principleScoring).scores
       IN /\ Len(scores) = Len(PRINCIPLES)
          /\ \A j \in 1..Len(PRINCIPLES) :
                /\ scores[j].principleId = PRINCIPLES[j]
                /\ scores[j].score = 0
                /\ scores[j].reasoning # ""

\* C7: when a principle-scoring call fails, the analyzed message ends with a
\* PrincipleScoring with one entry per registered principle, each with score 0
\* and a non-empty reasoning.
C7_ScoringFallback ==
    [][\A k \in 1..Len(calls) :
          ScoreCallFails(k)
            => \A i \in 1..Len(messages') :
                  messages'[i].id = calls[k].message.id => IsScoringFallback(messages'[i])]_vars

\* C8: in default-chat mode, connected, with flagging and principle scoring
\* enabled, every message appended to the message list, of either role, gets
\* a flagging call and a principle-scoring call of its own scheduled.
C8_EveryMessageAnalysed ==
    [][(selectedMode = "default-chat" /\ isConnected /\ isFlaggingEnabled
          /\ isPrincipleScoringEnabled /\ Len(messages') = Len(messages) + 1)
        => \E j \in 1..Len(timers') :
              /\ timers'[j].message = messages'[Len(messages')]
              /\ timers'[j].pos = Len(messages')
              /\ timers'[j].isFlaggingEnabled
              /\ timers'[j].isPrincipleScoringEnabled
              /\ j > Len(timers)]_vars

\* C11: once all pending updates and timers have run, the principle
\* visualization data is the series rebuilt from getFilteredMessages() under
\* the current cutoff, also after a scoring result was merged while the
\* cutoff was smaller than the number of messages.
C11_VizFollowsCutoff ==
    (selectedMode # "none" /\ timers = << >>)
        => principleVisualizationData = VizEffect(selectedMode, messages, messageCutoff)

\* the part of the message list below the cutoff
BelowCutoff ==
    IF messageCutoff = 0 THEN messages ELSE SubSeq(messages, 1, Min(messageCutoff, Len(messages)))

\* C12: every summary request, from generateSummary and from the summary
\* generated inside exportAnalysisToPDF, and every exported per-principle
\* record contains only messages at positions below the cutoff and only flags
\* whose owning message is below the cutoff.  Checked under SpecExport, just
\* after the request or export was built.
C12_ExportsFollowCutoff ==
    exported.kind # "none"
        => /\ exported.conversationHistory = ConversationHistory(BelowCutoff)
           /\ exported.flaggedContent =
                FlaggedContent(SelectSeq(flaggedMessages, LAMBDA flag :
                    \E i \in 1..Len(BelowCutoff) : BelowCutoff[i].id = flag.messageId))
           /\ \A j \in 1..Len(exported.principleRecords) :
                \E i \in 1..Len(BelowCutoff) :
                    BelowCutoff[i].id = exported.principleRecords[j].messageId

\* C13: the global flag list only grows while the panel is mounted: in every
\* step the previous list is a prefix of the new one.
C13_FlagsOnlyGrow ==
    [][selectedMode' # "none"
         => /\ Len(flaggedMessages) <= Len(flaggedMessages')
            /\ SubSeq(flaggedMessages', 1, Len(flaggedMessages)) = flaggedMessages]_vars

\* flags of two different messages were appended by two results
C13_Witness ==
    InChat /\ \E i, j \in 1..Len(flaggedMessages) :
        flaggedMessages[i].messageId # flaggedMessages[j].messageId

\* C14: all message ids of the list are pairwise distinct, also for two sends
\* or a send and a chat error that obtain the same clock value, and after any
\* upload.
C14_IdsDistinct ==
    \A i, j \in 1..Len(messages) : messages[i].id = messages[j].id => i = j

\* C15: message timestamps are non-decreasing along the list, in the chat
\* panel and after a transcript upload.
C15_TimestampsOrdered ==
    \A i, j \in 1..Len(messages) : i < j => messages[i].timestamp <= messages[j].timestamp

RECURSIVE ExpectedParse(_, _)
\* one << role, content >> per role-prefixed line, in order; a following
\* non-blank line without prefix is appended to it after a newline (the
\* content is trimmed, so nothing precedes the first text); blank lines are skipped
ExpectedParse(lines, out) ==
    IF lines = << >> THEN out
    ELSE LET line == Head(lines)
         IN IF line[1] = "" /\ line[2] = "" THEN ExpectedParse(Tail(lines), out)
            ELSE IF IsUserPrefix(line[1]) THEN ExpectedParse(Tail(lines), Append(out, << "user", line[2] >>))
            ELSE IF IsAiPrefix(line[1]) THEN ExpectedParse(Tail(lines), Append(out, << "ai", line[2] >>))
            ELSE IF out = << >> THEN ExpectedParse(Tail(lines), out)
            ELSE ExpectedParse(Tail(lines),
                    [out EXCEPT ![Len(out)] =
                        << @[1], IF @[2] = "" THEN line[2] ELSE @[2] \o "\n" \o line[2] >>])

\* C20: parseConversationFile produces exactly one message per role-prefixed
\* line (prefix matched case-insensitively), in order and with the matching
\* role; following non-blank lines without prefix are appended to it after a
\* newline; blank lines are skipped; a text with no prefix gives the empty list.
C20_OneMessagePerPrefixedLine ==
    [][\A text \in Transcripts :
          handleFileUpload(text)
              => [i \in 1..Len(messages') |-> << messages'[i].type, messages'[i].content >>]
                    = ExpectedParse(text, << >>)]_vars

\* C16: after a flagging analysis by any path (direct JSON parse, repaired
\* parse, keyword fallback, client failure fallback) the severityBreakdown of
\* the message contains every category of the registry, here the categories
\* the version of the flagging route itself reports by default.
C16_BreakdownComplete ==
    \A i \in 1..Len(messages) :
        IsDefined(messages[i].severityBreakdown)
            => \A c \in Range(IF route.version = "legacy" THEN EthicsCategories
                              ELSE RouteCategories) :
                    \E k \in 1..Len(Value(messages[i].severityBreakdown)) :
                        Value(messages[i].severityBreakdown)[k][1] = c

\* the provider's answer for the i-th principle of a served scoring request
RawFor(i) == route.raw.resps[i]

\* the scores a served scoring request returned
Returned ==
    IF route.endpoint = "principle_scoring" /\ route.served /\ route.status = 200
    THEN route.body.scores ELSE << >>

\* the scores stored on messages and in the global list
Stored ==
    { s \in UNION { Range(Value(messages[i].principleScoring).scores) :
                      i \in { j \in 1..Len(messages) : IsDefined(messages[j].principleScoring) } } :
        TRUE }
    \cup Range(principleScores)

\* C17: every score the scorer returns or the panel stores is an integer in
\* [-5, 5]; a raw score above 5 is returned as 5 and one below -5 as -5.
C17_ScoresClamped ==
    /\ \A i \in 1..Len(Returned) :
          /\ Returned[i].score \in -5..5
          /\ (route.apiKey = "sk-0123456789abcdefghij"
                /\ RawFor(i).kind \in { "json", "fenced" } /\ RawFor(i).score.t \in { "int", "dec" })
              => /\ (RawFor(i).score.whole > 5 => Returned[i].score = 5)
                 /\ (RawFor(i).score.whole < -5 => Returned[i].score = -5)
                 /\ (RawFor(i).score.whole \in -5..5 => Returned[i].score = RawFor(i).score.whole)
    /\ \A s \in Stored : s.score \in -5..5

\* a raw score of 7 came back as 5 and was stored on the message
C17_Witness ==
    /\ Len(Returned) > 0
    /\ RawFor(1).kind = "json" /\ RawFor(1).score.t = "int" /\ RawFor(1).score.whole = 7
    /\ Returned[1].score = 5
    /\ \E s \in Stored : s.principleId = Returned[1].principleId /\ s.score = 5

\* C18: the scorer's result has exactly one entry per principle of the
\* registry, in registry order; a principle whose response is missing or
\* cannot be parsed (no JSON and no score pattern in the text) gets score 0
\* with a non-empty reasoning.
C18_OneEntryPerPrinciple ==
    (route.endpoint = "principle_scoring" /\ route.served /\ route.status = 200)
        => /\ [i \in 1..Len(Returned) |-> Returned[i].principleId]
                = RoutePrinciples(route.version)
           /\ \A i \in 1..Len(Returned) :
                (/\ route.apiKey = "sk-0123456789abcdefghij"
                 /\ \/ RawFor(i).kind \in { "empty", "error" }
                    \/ RawFor(i).kind = "text" /\ ~IsDefined(ScoreMatch(RawFor(i).text)))
                    => Returned[i].score = 0 /\ Returned[i].reasoning # ""

\* C19: with the sentinel API key `test` no analyzer endpoint calls the
\* provider, each returns a structurally valid result (status 200), and the
\* client can connect with that key.
C19_TestKeyOffline ==
    route.apiKey = "test"
        => /\ route.served => (route.providerCalls = 0 /\ route.status = 200)
           /\ route.submit # "none" => isConnected

\* C21: the flags one flagging result attaches to a message never contain
\* two flags of the same category, whatever explicit flags and severity
\* breakdown the analyzer returned.
C21_OneFlagPerCategory ==
    \A i \in 1..Len(messages) :
        IsDefined(messages[i].flags)
            => \A j, k \in 1..Len(Value(messages[i].flags)) :
                    Value(messages[i].flags)[j].type = Value(messages[i].flags)[k].type => j = k

\* the flags a message carries
FlagsOf(msg) == IF IsDefined(msg.flags) THEN Value(msg.flags) ELSE << >>

\* the reason analyzeMessage gives a flag it derives from the breakdown
SynthesizedReason(category, severity) ==
    "Content flagged for " \o category \o " with " \o severity \o " severity"

\* C22: after a successful flagging merge, for every category whose severity
\* in the message's severityBreakdown is not `none`, the message's flags and
\* the global flag list contain a flag of that category for that message, and
\* a flag synthesized from the breakdown carries the breakdown's severity.
C22_BreakdownFlagged ==
    \A i \in 1..Len(messages) :
        (IsDefined(messages[i].flaggingAnalysis) /\ IsDefined(messages[i].severityBreakdown))
            => \A e \in Range(Value(messages[i].severityBreakdown)) :
                 e[2] # "none"
                    => /\ \E f \in Range(FlagsOf(messages[i])) : f.type = e[1]
                       /\ \E f \in Range(flaggedMessages) :
                             /\ f.type = e[1]
                             /\ "messageId" \in DOMAIN f
                             /\ f.messageId = messages[i].id
                       /\ \A f \in Range(FlagsOf(messages[i])) :
                             (f.type = e[1] /\ f.reason = SynthesizedReason(e[1], f.severity))
                                => f.severity = e[2]

\* C23: merging the same flagging result for the same message twice leaves
\* the message's flags, flaggingAnalysis and severityBreakdown as they were
\* after the first merge, while the global flag list receives the flags of
\* the result once per merge.
C23_MergeIdempotent ==
    [][\A k \in 1..Len(calls) : \A body \in FlagResponses :
          analyzeMessageOk(k, body)
              => /\ MergeFlagging(messages', calls[k].message, body) = messages'
                 /\ flaggedMessages' = flaggedMessages \o NewFlags(calls[k].message, body)]_vars

\* one result with flags was merged twice for the same message id: the
\* message carries its flags once, the global list twice
C23_Witness ==
    /\ InChat
    /\ \E i \in 1..Len(messages) :
          /\ Len(FlagsOf(messages[i])) > 0
          /\ flaggedMessages = FlagsOf(messages[i]) \o FlagsOf(messages[i])

\* C24: when the model output fails both the strict and the repaired JSON
\* parse, the flagging route decides by a keyword scan of the raw text: with
\* a keyword the result has exactly one flag, of category `other` and
\* severity `medium`; without one it has no flag and every breakdown category
\* is `none`; either way the breakdown lists all categories of the version's
\* registry and the reasoning is not empty.
C24_KeywordFallback ==
    (route.endpoint = "flag" /\ route.served /\ route.apiKey # "" /\ route.raw.kind = "text")
        => /\ route.status = 200
           /\ route.body.reasoning # ""
           /\ [i \in 1..Len(Value(route.body.severityBreakdown)) |->
                    Value(route.body.severityBreakdown)[i][1]]
                = (IF route.version = "legacy" THEN EthicsCategories ELSE RouteCategories)
           /\ IF route.body.shouldFlag
              THEN /\ Len(route.body.flags) = 1
                   /\ route.body.flags[1].type = "other"
                   /\ route.body.flags[1].severity = "medium"
              ELSE /\ route.body.flags = << >>
                   /\ \A e \in Range(Value(route.body.severityBreakdown)) : e[2] = "none"

\* C25: for every flagging or scoring call, also those of Analyze All
\* Messages for a message that is not the last of the transcript, the context
\* sent has the message being analyzed as its last element, the element the
\* route takes as the current message.
C25_ContextEndsWithMessage ==
    \A k \in 1..Len(calls) :
        /\ Len(calls[k].context) > 0
        /\ calls[k].context[Len(calls[k].context)] = ToRoleContent(calls[k].message)

\* C26: once Analyze All Messages has run to completion with both toggles on
\* and every call has returned successfully, every message of the transcript
\* carries a flaggingAnalysis and a principleScoring.
C26_AllMessagesAnalysed ==
    (/\ analysisRun.phase = "done"
     /\ analysisRun.isFlaggingEnabled /\ analysisRun.isPrincipleScoringEnabled
     /\ isFlaggingEnabled /\ isPrincipleScoringEnabled
     /\ calls = << >>)
        => \A i \in 1..Len(messages) :
              /\ IsDefined(messages[i].flaggingAnalysis)
              /\ IsDefined(messages[i].principleScoring)

\* C27: the automatic analysis of DialogAnalysisPanel after an upload makes at
\* most one flagging and one scoring call for the last message, whatever the
\* order in which the calls return: as long as Analyze All Messages was not
\* pressed, no two calls of one kind are in flight and each global list holds
\* at most the flags, or the scores, of one result.
C27_OneAutomaticCallEach ==
    (InDialog /\ analysisRun.phase = "idle")
        => /\ \A j, k \in 1..Len(calls) : calls[j].kind = calls[k].kind => j = k
           /\ \/ flaggedMessages = << >>
              \/ \E body \in FlagResponses : flaggedMessages = body.flags
           /\ \/ principleScores = << >>
              \/ \E body \in ScoreResponses : principleScores = body.scores

\* C28: in both panels every flag of the global list carries the id of a
\* message of the list, the message it was raised for, so that with the three
\* filters at all getFilteredFlags returns every flag of a message inside the
\* cutoff.
C28_FlagsCarryMessageId ==
    (selectedMode # "none" /\ messageCutoff = Len(messages))
        => \A k \in 1..Len(flaggedMessages) :
              /\ "messageId" \in DOMAIN flaggedMessages[k]
              /\ \E i \in 1..Len(messages) : messages[i].id = flaggedMessages[k].messageId

\* C29: a message whose flagging analysis completed and that has at least one
\* flag attached has flaggingAnalysis.shouldFlag true.
C29_FlaggedImpliesShouldFlag ==
    \A i \in 1..Len(messages) :
        (IsDefined(messages[i].flaggingAnalysis) /\ Len(FlagsOf(messages[i])) > 0)
            => Value(messages[i].flaggingAnalysis).shouldFlag

\* a step that merges the result of a flagging or scoring call, or the fallback
\* for a failed one, into the message list
MergesResult ==
    \E k \in 1..Len(calls) :
        \/ \E body \in FlagResponses :
              analyzeMessageOk(k, body) \/ dialogAnalyzeMessageOk(k, body)
        \/ \E body \in ScoreResponses :
              scorePrinciplesOk(k, body) \/ dialogScorePrinciplesOk(k, body)
        \/ \E failure \in Failures :
              analyzeMessageFailed(k, failure) \/ scorePrinciplesFailed(k, failure)

\* C30: in both panels a step that changes the number of messages sets the
\* cutoff to the new number (0 for an empty list), and a step that merges an
\* analysis result leaves the cutoff as it is.
C30_CutoffFollowsLength ==
    [][/\ Len(messages') # Len(messages) => messageCutoff' = Len(messages')
       /\ MergesResult => messageCutoff' = messageCutoff]_vars

====
